---- MODULE Spec2Model ----
(***************************************************************************)
(* Verification model of the searchyfy crawl / index / query pipeline.     *)
(*                                                                         *)
(* Part I   : strings and URL normalization (internal/crawler/normalizer)  *)
(* Part II  : the Redis list store, the URL frontier and the fetcher       *)
(*            worker (internal/crawler/frontier.go, worker.go)             *)
(* Part III : the indexer batch writer (internal/indexer)                  *)
(*                                                                         *)
(* Strings are sequences of one-character strings, so that trimming,       *)
(* lower-casing and prefix stripping are computed, not assumed.            *)
(***************************************************************************)
EXTENDS Integers, Sequences, FiniteSets, TLC

(***************************************************************************)
(* Bounds of the model.                                                    *)
(***************************************************************************)
\* total number of Seed calls issued by all producers together
MaxSeeds == 2
\* largest count a caller passes to NextBatch
MaxCount == 2
\* number of injected faults (store errors, crashes) in one behaviour
MaxFaults == 1

(***************************************************************************)
(* Part I.  Strings                                                        *)
(***************************************************************************)
Min(a, b) == IF a < b THEN a ELSE b

\* unicode.ToLower on the characters the model uses
LowerChar(c) ==
    CASE c = "A" -> "a" [] c = "B" -> "b" [] c = "C" -> "c" [] c = "E" -> "e"
      [] c = "H" -> "h" [] c = "O" -> "o" [] c = "P" -> "p" [] c = "R" -> "r"
      [] c = "S" -> "s"
      [] c = "T" -> "t" [] c = "W" -> "w" [] c = "X" -> "x"
      [] OTHER -> c

\* strings.ToLower
ToLower(s) == [i \in 1..Len(s) |-> LowerChar(s[i])]

\* strings.HasPrefix
HasPrefix(s, p) == Len(s) >= Len(p) /\ SubSeq(s, 1, Len(p)) = p

\* strings.TrimPrefix
TrimPrefix(s, p) == IF HasPrefix(s, p) THEN SubSeq(s, Len(p) + 1, Len(s)) ELSE s

\* strings.Index: the first position (1-based) at which sub starts in s, 0 if none
Index(s, sub) ==
    LET hits == {i \in 1..(Len(s) - Len(sub) + 1) : SubSeq(s, i, i + Len(sub) - 1) = sub}
    IN  IF hits = {} THEN 0 ELSE CHOOSE i \in hits : \A j \in hits : i <= j

\* strings.Contains
Contains(s, sub) == Index(s, sub) # 0

\* strings.TrimSpace
TrimSpace(s) ==
    LET keep == {i \in 1..Len(s) : s[i] # " "}
    IN  IF keep = {} THEN <<>>
        ELSE SubSeq(s, CHOOSE i \in keep : \A j \in keep : i <= j,
                       CHOOSE i \in keep : \A j \in keep : i >= j)

\* strings.Cut at a known position i of a separator of length n (0: not found)
CutAt(s, i, n) ==
    IF i = 0 THEN [before |-> s, after |-> <<>>, found |-> FALSE]
    ELSE [before |-> SubSeq(s, 1, i - 1), after |-> SubSeq(s, i + n, Len(s)),
          found |-> TRUE]

\* strings.Cut
Cut(s, sep) == CutAt(s, Index(s, sep), Len(sep))

\* net/url.Parse restricted to scheme://host/path#fragment, in the steps of
\* the library: the host up to the first "/" of the authority; a blank inside
\* the host is the parse error "invalid character in host name"
parseHost(scheme, c, frag) ==
    [ok |-> ~Contains(c.before, <<" ">>), Scheme |-> ToLower(scheme),
     Host |-> c.before, Path |-> IF c.found THEN <<"/">> \o c.after ELSE <<>>,
     Fragment |-> frag]

\* the authority follows "//"; without it the rest is the path
parseAuthority(scheme, rest, frag) ==
    IF HasPrefix(rest, <<"/", "/">>)
    THEN parseHost(scheme, Cut(SubSeq(rest, 3, Len(rest)), <<"/">>), frag)
    ELSE [ok |-> TRUE, Scheme |-> ToLower(scheme), Host |-> <<>>, Path |-> rest,
          Fragment |-> frag]

\* the scheme is what precedes the first ":"
getScheme(c, frag) ==
    IF c.found THEN parseAuthority(c.before, c.after, frag)
    ELSE parseAuthority(<<>>, c.before, frag)

\* the fragment is what follows the first "#"
parseFragment(c) == getScheme(Cut(c.before, <<":">>), c.after)

Parse(raw) == parseFragment(Cut(raw, <<"#">>))

\* idna.New(idna.ValidateForRegistration()).ToASCII on ASCII hosts: a host
\* with a character outside letters, digits, '-' and '.' is rejected
ToASCII(host) ==
    [ok |-> \A i \in 1..Len(host) : host[i] \notin {"_", " ", "!"}, host |-> host]

\* url.URL.String
URLString(u) ==
    u.Scheme \o <<":", "/", "/">> \o u.Host \o u.Path
      \o (IF u.Fragment = <<>> THEN <<>> ELSE <<"#">> \o u.Fragment)

\* normalizeUrl from the ASCII host on: the default path, the fragment
\* dropped, the URL written back
normalizeHost(u, ascii) ==
    IF ~ascii.ok THEN [ok |-> FALSE, url |-> <<>>]
    ELSE [ok |-> TRUE,
          url |-> URLString(
              [Scheme   |-> IF ToLower(u.Scheme) = <<>>
                            THEN <<"h", "t", "t", "p", "s">> ELSE ToLower(u.Scheme),
               Host     |-> ascii.host,
               Path     |-> IF ascii.host # <<>> /\ u.Path = <<>>
                            THEN <<"/">> ELSE u.Path,
               Fragment |-> <<>>])]

\* normalizeUrl from the parsed URL on: lower-cased host without "www."
normalizeParsed(u) ==
    IF ~u.ok THEN [ok |-> FALSE, url |-> <<>>]
    ELSE normalizeHost(u, ToASCII(TrimPrefix(ToLower(u.Host), <<"w", "w", "w", ".">>)))

\* normalizeUrl from the trimmed string on: the default scheme prefix
normalizeTrimmed(trimmed) ==
    normalizeParsed(Parse(IF ~Contains(trimmed, <<":", "/", "/">>)
                          THEN <<"h", "t", "t", "p", "s", ":", "/", "/">> \o trimmed
                          ELSE trimmed))

\* normalizeUrl: [ok, url]
normalizeUrl(rawUrl) == normalizeTrimmed(TrimSpace(rawUrl))

\* the URLs producers hand to Seed
\* "https://WWW.Ex.Co/a#f"
RawA1 == <<"h","t","t","p","s",":","/","/","W","W","W",".","E","x",".","C","o","/","a","#","f">>
\* " https://ex.co/a"
RawA2 == <<" ","h","t","t","p","s",":","/","/","e","x",".","c","o","/","a">>
\* "b.co"
RawB1 == <<"b",".","c","o">>
\* "HTTPS://B.co/"
RawB2 == <<"H","T","T","P","S",":","/","/","B",".","c","o","/">>
\* "a_b"
RawBad == <<"a","_","b">>
RawUrls == {RawA1, RawA2, RawB1, RawB2, RawBad}

\* "https://ex.co/a" and "https://b.co/"
UrlA == <<"h","t","t","p","s",":","/","/","e","x",".","c","o","/","a">>
UrlB == <<"h","t","t","p","s",":","/","/","b",".","c","o","/">>
\* normalizeUrl on the URLs of the model, computed once
Normalized == [r \in RawUrls |-> normalizeUrl(r)]
NormUrls == {Normalized[r].url : r \in {x \in RawUrls : Normalized[x].ok}}


(***************************************************************************)
(* Part II.  The list store, the frontier and the fetcher worker           *)
(***************************************************************************)
VARIABLES
    pending,      \* Redis list "pending"; element 1 is the head (Redis index 0)
    processing,   \* worker id -> Redis list "processing:<worker id>"
    failed,       \* Redis list "failed"
    bloom,        \* members added to the filter "visited_url"
    docstore,     \* URL -> number of raw pages of that URL in the document store
    seeder,       \* producer -> position inside Seed and its local normalizedUrl
    worker,       \* worker id -> position inside Worker.Start and its locals
    started,      \* the workers RunCrawler started (cfg.Workers of them)
    seeds,        \* number of Seed calls issued so far
    faults,       \* number of faults injected so far
    pushLog,      \* history: the URLs pushed to pending by Seed, in push order
    doneCnt       \* history: URL -> number of list entries removed by Done

frontierVars == <<pending, processing, failed, bloom, docstore, seeder, worker,
                  started, seeds, faults, pushLog, doneCnt>>

\* worker ids built by RunCrawler and the producers calling Seed
Workers == {"worker-0", "worker-1"}
Seeders == {"seed-0", "seed-1"}

\* ---- Redis list commands (0-based indices, negative ones count from the tail)
LPush(list, v) == <<v>> \o list

LRange(list, start, stop) ==
    LET llen == Len(list)
        s0   == IF start < 0 THEN llen + start ELSE start
        e0   == IF stop < 0 THEN llen + stop ELSE stop
        s    == IF s0 < 0 THEN 0 ELSE s0
        e    == IF e0 >= llen THEN llen - 1 ELSE e0
    IN  IF s > e \/ s >= llen THEN <<>> ELSE SubSeq(list, s + 1, e + 1)

LTrim(list, start, stop) == LRange(list, start, stop)

\* LREM key 0 value: every element equal to value is removed
LRem(list, v) == SelectSeq(list, LAMBDA x : x # v)

\* number of elements LREM key 0 value removes
LRemCount(list, v) == Cardinality({i \in 1..Len(list) : list[i] = v})

\* ---- serialization of crawlItem and of the failed record
Marshal(item) == <<"url", item.Url, "depth", item.Depth>>
Unmarshal(data) == [Url |-> data[2], Depth |-> data[4]]
MarshalFailed(item, reason) == <<"item", Marshal(item), "reason", reason>>

UnmarshalAll(strs) == [i \in 1..Len(strs) |-> Unmarshal(strs[i])]

\* ---- a pipeline of list commands and its execution
\* the three list families as one value
Lists == [pending |-> pending, processing |-> processing, failed |-> failed]

Apply(ls, cmd) ==
    CASE cmd.op = "LTRIM" ->
           [ls EXCEPT !.pending = LTrim(@, cmd.start, cmd.stop)]
      [] cmd.op = "LPUSH" /\ cmd.key = "failed" ->
           [ls EXCEPT !.failed = LPush(@, cmd.val)]
      [] cmd.op = "LPUSH" ->
           [ls EXCEPT !.processing[cmd.key] = LPush(@, cmd.val)]
      [] cmd.op = "LREM" ->
           [ls EXCEPT !.processing[cmd.key] = LRem(@, cmd.val)]

RECURSIVE ApplyAll(_, _)
ApplyAll(ls, cmds) ==
    IF cmds = <<>> THEN ls ELSE ApplyAll(Apply(ls, Head(cmds)), Tail(cmds))

\* a pipeline without MULTI/EXEC: the commands sent before the connection broke
\* have been executed
ExecPipelined(ls, cmds, ok) ==
    IF ok THEN ApplyAll(ls, cmds) ELSE Apply(ls, Head(cmds))

\* TxPipeline().Exec: MULTI ... EXEC, all commands or none
Exec(ls, cmds, ok) ==
    IF ok THEN ApplyAll(ls, cmds) ELSE ls


\* ---- history helpers
Occurrences(seq, x) == Cardinality({i \in 1..Len(seq) : seq[i] = x})
InList(list, u) == Occurrences(list, Marshal([Url |-> u, Depth |-> 0]))
FailedUrls == {Unmarshal(failed[i][2]).Url : i \in 1..Len(failed)}
FailedCount(u) ==
    Cardinality({i \in 1..Len(failed) : Unmarshal(failed[i][2]).Url = u})

RECURSIVE SumOver(_, _)
SumOver(S, f) ==
    IF S = {} THEN 0
    ELSE LET x == CHOOSE y \in S : TRUE IN f[x] + SumOver(S \ {x}, f)

InProcessing(u) == SumOver(Workers, [w \in Workers |-> InList(processing[w], u)])

\* ---- urlFrontier.Seed, one action per round trip to the store
idleSeeder == [pc |-> "idle", url |-> <<>>]

\* normalizeUrl and redisBloomClient.Exists; the filter may answer "present"
\* for a URL that was never added (false positive), never the reverse
SeedCheck(s, rawUrl, falsePositive) ==
    /\ seeder[s].pc = "idle"
    /\ seeds < MaxSeeds
    /\ seeds' = seeds + 1
    /\ LET n == Normalized[rawUrl]
           exists == n.url \in bloom \/ falsePositive
       IN  seeder' = [seeder EXCEPT ![s] =
               IF ~n.ok \/ exists THEN idleSeeder
               ELSE [pc |-> "add", url |-> n.url]]
    /\ UNCHANGED <<pending, processing, failed, bloom, docstore, worker, started,
                   faults, pushLog, doneCnt>>

\* redisBloomClient.Add
SeedAdd(s, ok) ==
    /\ seeder[s].pc = "add"
    /\ ok \/ faults < MaxFaults
    /\ faults' = IF ok THEN faults ELSE faults + 1
    /\ bloom' = IF ok THEN bloom \cup {seeder[s].url} ELSE bloom
    /\ seeder' = [seeder EXCEPT ![s] =
           IF ok THEN [@ EXCEPT !.pc = "push"] ELSE idleSeeder]
    /\ UNCHANGED <<pending, processing, failed, docstore, worker, started, seeds,
                   pushLog, doneCnt>>

\* redisClient.LPush(pendingQueue, data)
SeedPush(s, ok) ==
    /\ seeder[s].pc = "push"
    /\ ok \/ faults < MaxFaults
    /\ faults' = IF ok THEN faults ELSE faults + 1
    /\ LET item == [Url |-> seeder[s].url, Depth |-> 0]
       IN  /\ pending' = IF ok THEN LPush(pending, Marshal(item)) ELSE pending
           /\ pushLog' = IF ok THEN Append(pushLog, item.Url) ELSE pushLog
    /\ seeder' = [seeder EXCEPT ![s] = idleSeeder]
    /\ UNCHANGED <<processing, failed, bloom, docstore, worker, started, seeds,
                   doneCnt>>

\* urlFrontier.Size
Size == Len(pending)

\* ---- urlFrontier.NextBatch
\* LRange(processingKey, 0, count-1): the worker's lease, at most count items
RecoveredItemsAll(w, count) == processing[w]
RecoveredItems(w, count) == LRange(processing[w], 0, count - 1)

\* LRange(pendingQueue, -count, -1): the count elements at the tail
PendingTail(count) == LRange(pending, -count, -1)

\* the transaction NextBatch queues: LTrim pending, one LPush per returned item
NextBatchCmds(w, count, items) ==
    <<[op |-> "LTRIM", start |-> 0, stop |-> -(count + 1)]>>
      \o [i \in 1..Len(items) |->
             [op |-> "LPUSH", key |-> w, val |-> Marshal(items[i])]]

\* the transaction Fail queues
FailCmds(w, item, reason) ==
    <<[op |-> "LREM", key |-> w, val |-> Marshal(item)],
      [op |-> "LPUSH", key |-> "failed", val |-> MarshalFailed(item, reason)]>>

\* the fetch tasks Worker.Start launches for a batch: items with an empty URL
\* are skipped
Launch(items) == {i \in 1..Len(items) : items[i].Url # <<>>}

freshWorker ==
    [pc |-> "start", count |-> 0, batch |-> <<>>, todo |-> {}, pagesData |-> <<>>,
     ret |-> ""]

\* NextBatch up to its transaction: the read of processing:<worker>, whose
\* non-empty lease is returned at once (recovery first), else the read of
\* pending; "frontier is empty" sends the worker back to the top of its loop
\* after its sleep.  The two reads are one step: processing:<worker> is written
\* by this worker only, so its read commutes with every step of the others.
NextBatchRead(w, count) ==
    /\ w \in started
    /\ worker[w].pc = "start"
    /\ LET processingItems == UnmarshalAll(RecoveredItems(w, count))
           crawlItems      == UnmarshalAll(PendingTail(count))
       IN  worker' = [worker EXCEPT ![w] =
               IF Len(processingItems) > 0
               THEN [freshWorker EXCEPT !.pc = "fetch", !.count = count,
                                        !.batch = processingItems,
                                        !.todo = Launch(processingItems),
                                        !.ret = "recovered"]
               ELSE IF Len(crawlItems) = 0
               THEN [freshWorker EXCEPT !.ret = "frontier is empty"]
               ELSE [freshWorker EXCEPT !.pc = "exec", !.count = count,
                                        !.batch = crawlItems]]
    /\ UNCHANGED <<pending, processing, failed, bloom, docstore, seeder, started,
                   seeds, faults, pushLog, doneCnt>>

\* pipe.Exec of NextBatch; on an error Worker.Start logs and returns
NextBatchExec(w, ok) ==
    /\ worker[w].pc = "exec"
    /\ ok \/ faults < MaxFaults
    /\ faults' = IF ok THEN faults ELSE faults + 1
    /\ LET ls == Exec(Lists, NextBatchCmds(w, worker[w].count, worker[w].batch), ok)
       IN  /\ pending' = ls.pending
           /\ processing' = ls.processing
           /\ failed' = ls.failed
    /\ worker' = [worker EXCEPT ![w] =
           IF ok THEN [@ EXCEPT !.pc = "fetch", !.todo = Launch(worker[w].batch),
                                !.ret = "moved"]
           ELSE [freshWorker EXCEPT !.pc = "stopped",
                                    !.ret = "redis transaction failed"]]
    /\ UNCHANGED <<bloom, docstore, seeder, started, seeds, pushLog, doneCnt>>


\* ---- urlFrontier.Done and urlFrontier.Fail, called by the fetch tasks
\* Done: redisBloomClient.Add(item.Url), then LRem(processing:<worker>, 0, data);
\* an error of LRem is returned, the list is then unchanged
Done(w, item, ok) ==
    /\ bloom' = bloom \cup {item.Url}
    /\ processing' = IF ok THEN [processing EXCEPT ![w] = LRem(@, Marshal(item))]
                     ELSE processing
    /\ doneCnt' = IF ok
                  THEN [doneCnt EXCEPT ![item.Url] = @ + LRemCount(processing[w], Marshal(item))]
                  ELSE doneCnt
    /\ UNCHANGED <<pending, failed>>

\* Fail: one transaction, LRem from processing:<worker> and LPush to failed
Fail(w, item, reason, ok) ==
    /\ LET ls == Exec(Lists, FailCmds(w, item, reason), ok)
       IN  /\ pending' = ls.pending
           /\ processing' = ls.processing
           /\ failed' = ls.failed
    /\ UNCHANGED <<bloom, doneCnt>>

\* ---- Worker.Start: one fetch task of the batch, from CrawlPage to its end
\* crawlOk: CrawlPage returned a page; storeOk: the list store executed the
\* command of Done or the transaction of Fail
Task(w, i, crawlOk, storeOk) ==
    /\ worker[w].pc = "fetch"
    /\ i \in worker[w].todo
    /\ storeOk \/ faults < MaxFaults
    /\ faults' = IF storeOk THEN faults ELSE faults + 1
    /\ LET item == worker[w].batch[i]
       IN  IF crawlOk
           THEN /\ Done(w, item, storeOk)
                /\ worker' = [worker EXCEPT ![w] =
                       [@ EXCEPT !.todo = @ \ {i},
                                 !.pagesData = Append(@, item.Url),
                                 !.ret = IF storeOk THEN "" ELSE
                                         "failed to report crawl success"]]
           ELSE /\ Fail(w, item, "request failed", storeOk)
                /\ worker' = [worker EXCEPT ![w] =
                       [@ EXCEPT !.todo = @ \ {i},
                                 !.ret = IF storeOk THEN "" ELSE
                                         "failed to report crawl failure"]]
    /\ UNCHANGED <<docstore, seeder, started, seeds, pushLog>>

\* MongoClient.AddBatchWebPage after batchWg.Wait: the first k pages of the
\* list are inserted (InsertMany is ordered); k = Len(pages) is success, a
\* smaller k a failure, which the worker only logs
RECURSIVE InsertPages(_, _)
InsertPages(store, pages) ==
    IF pages = <<>> THEN store
    ELSE InsertPages([store EXCEPT ![Head(pages)] = @ + 1], Tail(pages))

AddBatchWebPage(w, k) ==
    /\ worker[w].pc = "fetch"
    /\ worker[w].todo = {}
    /\ LET pages == worker[w].pagesData
           ok    == k = Len(pages) /\ pages # <<>>
       IN  /\ k \in 0..Len(pages)
           /\ ok \/ pages = <<>> \/ faults < MaxFaults
           /\ faults' = IF ok \/ pages = <<>> THEN faults ELSE faults + 1
           /\ docstore' = InsertPages(docstore, SubSeq(pages, 1, k))
           /\ worker' = [worker EXCEPT ![w] =
                  freshWorker]
    /\ UNCHANGED <<pending, processing, failed, bloom, seeder, started, seeds,
                   pushLog, doneCnt>>

\* the process dies inside a batch: every local of the worker is lost, the
\* lists of the store stay as they are
Crash(w) ==
    /\ w \in started
    /\ worker[w].pc \in {"exec", "fetch"}
    /\ faults < MaxFaults
    /\ faults' = faults + 1
    /\ worker' = [worker EXCEPT ![w] = [freshWorker EXCEPT !.pc = "stopped"]]
    /\ UNCHANGED <<pending, processing, failed, bloom, docstore, seeder, started,
                   seeds, pushLog, doneCnt>>

\* the crawler is started again with the same worker ids
Restart(w) ==
    /\ worker[w].pc = "stopped"
    /\ worker' = [worker EXCEPT ![w] = freshWorker]
    /\ UNCHANGED <<pending, processing, failed, bloom, docstore, seeder, started,
                   seeds, faults, pushLog, doneCnt>>

InitFrontier ==
    /\ pending = <<>>
    /\ processing = [w \in Workers |-> <<>>]
    /\ failed = <<>>
    /\ bloom = {}
    /\ docstore = [u \in NormUrls |-> 0]
    /\ seeder = [s \in Seeders |-> idleSeeder]
    /\ worker = [w \in Workers |-> freshWorker]
    /\ started \in {{"worker-0"}, Workers}
    /\ seeds = 0
    /\ faults = 0
    /\ pushLog = <<>>
    /\ doneCnt = [u \in NormUrls |-> 0]

(***************************************************************************)
(* Part III.  The indexer: tokenization, CreateBatch and the three bulk    *)
(* writes of ProcessBatch                                                  *)
(***************************************************************************)
\* number of batches the indexer workers take in one behaviour
MaxBatches == 2
\* largest number of pages in one batch (cfg.BatchSize)
MaxDocs == 2
\* postings per sub-batch of InsertPosting; 1000 in the source, scaled to the
\* size of the batches of the model so that a batch spans several sub-batches
maxBatchSize == 2

VARIABLES
    documents,   \* table documents: url -> row, id = 0 when the url has no row
    terms,       \* table terms: term -> id
    postings,    \* table postings: <<term_id, doc_id>> -> positions
    termCache,   \* Storage.termCache: term -> id
    indexer,     \* indexer worker -> position inside ProcessBatch and its locals
    batches,     \* number of batches taken so far
    idxFaults,   \* number of failed bulk writes so far
    written      \* history: the last batch written completely, see NextWritten

idxVars == <<documents, terms, postings, termCache, indexer, batches, idxFaults,
             written>>

IndexWorkers == {"indexer-0", "indexer-1"}

\* ---- words, as sequences of characters
wDogs == <<"d", "o", "g", "s">>
wCat  == <<"c", "a", "t">>
wBird == <<"b", "i", "r", "d">>
wThe  == <<"t", "h", "e">>
wX    == <<"x">>

stopWords ==
    { <<"a">>, <<"a","n">>, <<"t","h","e">>, <<"a","n","d">>, <<"o","r">>,
      <<"b","u","t">>, <<"i","s">>, <<"a","r","e">>, <<"i","n">>, <<"o","n">>,
      <<"i","t">>, <<"t","h","i","s">>, <<"t","h","a","t">>, <<"t","o">>,
      <<"f","o","r">>, <<"o","f">>, <<"w","i","t","h">> }

vowelCount(token) ==
    Cardinality({i \in 1..Len(token) : token[i] \in {"a", "e", "i", "o", "u"}})

hasRepeatedChars(token, n) ==
    /\ Len(token) >= n
    /\ \E i \in 1..(Len(token) - n + 1) : \A j \in i..(i + n - 1) : token[j] = token[i]

\* tokenizeAndFilter on the fields of the normalized text
tokenizeAndFilter(fields) ==
    SelectSeq(fields, LAMBDA token :
        /\ ~(Len(token) <= 1 \/ token \in stopWords)
        /\ ~(vowelCount(token) = 0 \/ hasRepeatedChars(token, 3)))

HasSuffix(s, suf) ==
    Len(s) >= Len(suf) /\ SubSeq(s, Len(s) - Len(suf) + 1, Len(s)) = suf

\* porterstemmer.StemString, step 1a of the Porter stemmer (plural endings)
StemString(token) ==
    IF HasSuffix(token, <<"s","s","e","s">>) THEN SubSeq(token, 1, Len(token) - 2)
    ELSE IF HasSuffix(token, <<"i","e","s">>) THEN SubSeq(token, 1, Len(token) - 2)
    ELSE IF HasSuffix(token, <<"s","s">>) THEN token
    ELSE IF HasSuffix(token, <<"s">>) THEN SubSeq(token, 1, Len(token) - 1)
    ELSE token

\* stemTokens of the indexer, with the tokens on which StemString panics: the
\* deferred recover logs and the closure returns without appending; stems of
\* length <= 1 or without a vowel are dropped
RECURSIVE stemTokensRecover(_, _)
stemTokensRecover(tokens, raising) ==
    IF tokens = <<>> THEN <<>>
    ELSE LET stemmed == StemString(Head(tokens))
         IN  (IF Head(tokens) \in raising THEN <<>>
              ELSE IF Len(stemmed) <= 1 \/ vowelCount(stemmed) = 0 THEN <<>>
              ELSE <<stemmed>>)
               \o stemTokensRecover(Tail(tokens), raising)

\* stemTokens of the indexer when the stemmer panics on no token
stemTokens(tokens) == stemTokensRecover(tokens, {})

\* stemTokens of package crawler (normalizer.go): the deferred recover appends
\* the token as it was given, and every stem is appended
RECURSIVE crawlerStemTokens(_, _)
crawlerStemTokens(tokens, raising) ==
    IF tokens = <<>> THEN <<>>
    ELSE (IF Head(tokens) \in raising THEN <<Head(tokens)>>
          ELSE <<StemString(Head(tokens))>>)
           \o crawlerStemTokens(Tail(tokens), raising)

\* normalizePageContent; the text of a page is given by the fields of its
\* normalized form
normalizePageContent(fields) == stemTokens(tokenizeAndFilter(fields))

\* ---- the raw pages the indexer reads
\* "dogs dogs cat", "the cat bird", "x"
TextA == <<wDogs, wDogs, wCat>>
TextB == <<wThe, wCat, wBird>>
TextC == <<wX>>
IdxUrls == {UrlA, UrlB}
\* "https://ex.co/a/", and the urls a row of documents may have
UrlA2 == UrlA \o <<"/">>
DocUrls == IdxUrls \cup {UrlA2}
Pages == [URL : IdxUrls, Text : {TextA, TextB, TextC}]
Batches == UNION {[1..n -> Pages] : n \in 1..MaxDocs}

\* ---- BatchProcessor.CreateBatch
\* the positions (0-based emission indices) appended for a token, in the order
\* of the loop over the tokens
RECURSIVE PositionsFrom(_, _, _)
PositionsFrom(tokens, token, pos) ==
    IF pos >= Len(tokens) THEN <<>>
    ELSE (IF tokens[pos + 1] = token THEN <<pos>> ELSE <<>>)
           \o PositionsFrom(tokens, token, pos + 1)

TokensOf(doc) == normalizePageContent(doc.Text)
Range(seq) == {seq[i] : i \in 1..Len(seq)}

\* docs with TokenCount set, and termMap: term -> docIdx -> positions (docIdx
\* is 0-based in the source, 1-based here)
CreateBatch(docs) ==
    [docs    |-> [i \in 1..Len(docs) |->
                     [URL |-> docs[i].URL, Text |-> docs[i].Text,
                      TokenCount |-> Len(TokensOf(docs[i]))]],
     termMap |-> [t \in UNION {Range(TokensOf(docs[i])) : i \in 1..Len(docs)} |->
                     [i \in {j \in 1..Len(docs) : t \in Range(TokensOf(docs[j]))} |->
                         PositionsFrom(TokensOf(docs[i]), t, 0)]]]

\* ---- Storage.InsertDocuments: one upsert per page, in the order of the pages
\* (INSERT ... ON CONFLICT(url) DO UPDATE ... RETURNING id).  Ids are handed
\* out in insertion order; the gaps a serial column leaves are not modelled.
\* The row keeps the token list of the page that wrote it (history), beside
\* token_count.
NextDocId(table) == 1 + Cardinality({u \in DOMAIN table : table[u].id # 0})

\* a plain INSERT ... RETURNING id without the ON CONFLICT(url) clause taking
\* effect: every page gets a new id
RECURSIVE InsertDocumentsFresh(_, _, _)
InsertDocumentsFresh(table, docs, ids) ==
    IF docs = <<>> THEN [table |-> table, ids |-> ids]
    ELSE LET doc == Head(docs)
         IN  InsertDocumentsFresh(
                 [table EXCEPT ![doc.URL] =
                     [id |-> NextDocId(table) + Len(ids), token_count |-> doc.TokenCount,
                      tokens |-> TokensOf(doc)]],
                 Tail(docs), Append(ids, NextDocId(table) + Len(ids)))

RECURSIVE UpsertDocuments(_, _, _)
UpsertDocuments(table, docs, ids) ==
    IF docs = <<>> THEN [table |-> table, ids |-> ids]
    ELSE LET doc == Head(docs)
             id  == IF table[doc.URL].id # 0 THEN table[doc.URL].id ELSE NextDocId(table)
         IN  UpsertDocuments(
                 [table EXCEPT ![doc.URL] =
                     [id |-> id, token_count |-> doc.TokenCount, tokens |-> TokensOf(doc)]],
                 Tail(docs), Append(ids, id))

\* ---- Storage.UpsertTerms
Alphabet == <<"a","b","c","d","e","f","g","h","i","j","k","l","m",
              "n","o","p","q","r","s","t","u","v","w","x","y","z">>
CharRank(c) == CHOOSE i \in 1..Len(Alphabet) : Alphabet[i] = c

\* the order of sort.Strings
RECURSIVE LexLess(_, _)
LexLess(a, b) ==
    IF a = <<>> THEN b # <<>>
    ELSE IF b = <<>> THEN FALSE
    ELSE IF Head(a) = Head(b) THEN LexLess(Tail(a), Tail(b))
    ELSE CharRank(Head(a)) < CharRank(Head(b))

\* insertMissingTerms on the sorted missing terms: ON CONFLICT (term) DO NOTHING
RECURSIVE InsertMissingTerms(_, _)
InsertMissingTerms(table, missing) ==
    IF missing = {} THEN table
    ELSE LET t == CHOOSE x \in missing : \A y \in missing \ {x} : LexLess(x, y)
         IN  InsertMissingTerms(
                 IF t \in DOMAIN table THEN table
                 ELSE table @@ (t :> Cardinality(DOMAIN table) + 1),
                 missing \ {t})

\* ---- Storage.InsertPosting
\* int32(p): a position above the largest int32 wraps around
MaxInt32 == 2147483647
Int32(p) == IF p <= MaxInt32 THEN p ELSE ((p - MaxInt32) - 1) - MaxInt32 - 1

ToInt32(pos) == [k \in 1..Len(pos) |-> Int32(pos[k])]

\* allPostings before the sort: one entry per term of the batch with a known
\* id and per page holding the term
AllPostings(termMap, docIDs, positions) ==
    {[termID |-> termMap[p[1]], docID |-> docIDs[p[2]],
      positions |-> ToInt32(positions[p[1]][p[2]])] :
        p \in {q \in (DOMAIN positions) \X (1..Len(docIDs)) :
                 q[1] \in DOMAIN termMap /\ q[2] \in DOMAIN positions[q[1]]}}

\* the comparison function handed to sort.Slice
PostingLess(a, b) ==
    IF a.termID = b.termID THEN a.docID < b.docID ELSE a.termID < b.termID

\* the orders sort.Slice may leave allPostings in: sorted by (termID, docID),
\* entries with equal keys in any order (the sort is not stable and the entries
\* are collected by ranging over maps)
RECURSIVE SortedOrders(_)
SortedOrders(S) ==
    IF S = {} THEN {<<>>}
    ELSE UNION {{<<x>> \o rest : rest \in SortedOrders(S \ {x})} :
                  x \in {y \in S : \A z \in S : ~PostingLess(z, y)}}

\* the sub-batches InsertPosting may send next: the first maxBatchSize entries of
\* what is left
NextChunks(left) ==
    {SubSeq(o, 1, Min(maxBatchSize, Len(o))) : o \in SortedOrders(left)}

\* insertPostings for each entry of a sub-batch, in order: ON CONFLICT
\* (term_id, doc_id) DO UPDATE SET positions = EXCLUDED.positions
RECURSIVE UpsertPostings(_, _)
UpsertPostings(table, chunk) ==
    IF chunk = <<>> THEN table
    ELSE LET e   == Head(chunk)
             key == <<e.termID, e.docID>>
         IN  UpsertPostings(
                 IF key \in DOMAIN table THEN [table EXCEPT ![key] = e.positions]
                 ELSE table @@ (key :> e.positions),
                 Tail(chunk))

\* ---- Indexer.worker / Indexer.processDocuments / BatchProcessor.ProcessBatch
idleIndexer ==
    [pc |-> "idle", batch |-> <<>>, docIDs |-> <<>>, termMap |-> <<>>, left |-> {}]

\* processDocuments ends the process with log.Fatalf when ProcessBatch returns
\* an error: every indexer worker stops where it is and the term cache, which
\* lives in the memory of the process, is lost; the indexer is started again
\* later
Fatal ==
    /\ idxFaults < MaxFaults
    /\ idxFaults' = idxFaults + 1
    /\ indexer' = [w \in IndexWorkers |-> idleIndexer]
    /\ termCache' = <<>>

\* history: the pages of the last batch written completely while no other
\* worker was inside a batch, and the tables right after it; forgotten as soon
\* as a batch of other pages writes
noneWritten == [docs |-> <<>>, db |-> <<>>]

NextWritten(w) ==
    IF indexer'[w].pc = "idle" /\ idxFaults' = idxFaults
    THEN IF \A v \in IndexWorkers : indexer'[v].pc = "idle"
         THEN [docs |-> indexer[w].batch.docs,
               db   |-> <<documents', terms', postings'>>]
         ELSE noneWritten
    ELSE IF written.docs = indexer[w].batch.docs THEN written ELSE noneWritten

\* a worker has collected a batch from documentChan; CreateBatch
TakeBatch(w, docs) ==
    /\ indexer[w].pc = "idle"
    /\ batches < MaxBatches
    /\ batches' = batches + 1
    /\ indexer' = [indexer EXCEPT ![w] =
           [idleIndexer EXCEPT !.pc = "documents", !.batch = CreateBatch(docs)]]
    /\ UNCHANGED <<documents, terms, postings, termCache, idxFaults, written>>

\* ProcessBatch, first bulk write
InsertDocuments(w, ok) ==
    /\ indexer[w].pc = "documents"
    /\ IF ok
       THEN LET r == UpsertDocuments(documents, indexer[w].batch.docs, <<>>)
            IN  /\ documents' = r.table
                /\ indexer' = [indexer EXCEPT ![w] =
                       [@ EXCEPT !.pc = "terms", !.docIDs = r.ids]]
                /\ UNCHANGED <<idxFaults, termCache>>
       ELSE Fatal /\ UNCHANGED documents
    /\ UNCHANGED <<terms, postings, batches>>
    /\ written' = NextWritten(w)

\* ProcessBatch, second bulk write: the cache is read first, the missing terms
\* are inserted in sorted order and their ids read back and cached.  The insert
\* and the select are one step: terms are never deleted and an id never changes,
\* so the select returns the same ids whatever runs in between.  A failure is
\* the failure of the insert (nothing is written) or of the select after it
\* (the terms are in the table).
UpsertTerms(w, ok) ==
    /\ indexer[w].pc = "terms"
    /\ LET wanted  == DOMAIN indexer[w].batch.termMap
           missing == {t \in wanted : t \notin DOMAIN termCache}
           table   == InsertMissingTerms(terms, missing)
           termMap == [t \in wanted |-> IF t \in missing THEN table[t] ELSE termCache[t]]
           all     == AllPostings(termMap, indexer[w].docIDs, indexer[w].batch.termMap)
       IN  IF ok \/ missing = {}
           THEN /\ ok
                /\ terms' = table
                /\ termCache' = [t \in DOMAIN termCache \cup missing |->
                                    IF t \in missing THEN table[t] ELSE termCache[t]]
                /\ indexer' = [indexer EXCEPT ![w] =
                       IF all = {} THEN idleIndexer
                       ELSE [@ EXCEPT !.pc = "postings", !.termMap = termMap,
                                      !.left = all]]
                /\ UNCHANGED idxFaults
           ELSE Fatal /\ terms' \in {terms, table}
    /\ UNCHANGED <<documents, postings, batches>>
    /\ written' = NextWritten(w)

\* a third bulk write that goes on with the next sub-batch after a failed one
InsertPostingSkipFailed(w, chunk, ok) ==
    /\ indexer[w].pc = "postings"
    /\ chunk \in NextChunks(indexer[w].left)
    /\ ok \/ idxFaults < MaxFaults
    /\ postings' = IF ok THEN UpsertPostings(postings, chunk) ELSE postings
    /\ idxFaults' = IF ok THEN idxFaults ELSE idxFaults + 1
    /\ indexer' = [indexer EXCEPT ![w] =
           IF indexer[w].left \ Range(chunk) = {} THEN idleIndexer
           ELSE [@ EXCEPT !.left = @ \ Range(chunk)]]
    /\ UNCHANGED <<documents, terms, batches, termCache>>
    /\ written' = NextWritten(w)

\* ProcessBatch, third bulk write: one sub-batch of InsertPosting
InsertPosting(w, chunk, ok) ==
    /\ indexer[w].pc = "postings"
    /\ chunk \in NextChunks(indexer[w].left)
    /\ IF ok
       THEN /\ postings' = UpsertPostings(postings, chunk)
            /\ indexer' = [indexer EXCEPT ![w] =
                   IF indexer[w].left \ Range(chunk) = {} THEN idleIndexer
                   ELSE [@ EXCEPT !.left = @ \ Range(chunk)]]
            /\ UNCHANGED <<idxFaults, termCache>>
       ELSE Fatal /\ UNCHANGED postings
    /\ UNCHANGED <<documents, terms, batches>>
    /\ written' = NextWritten(w)

InitIndexer ==
    /\ documents = [u \in DocUrls |-> [id |-> 0, token_count |-> 0, tokens |-> <<>>]]
    /\ terms = <<>>
    /\ postings = <<>>
    /\ termCache = <<>>
    /\ indexer = [w \in IndexWorkers |-> idleIndexer]
    /\ batches = 0
    /\ idxFaults = 0
    /\ written = noneWritten

(***************************************************************************)
(* Part IV.  The indexer mode of main: reading raw pages from the document *)
(* store, feeding the workers, and the cursor last_indexed_object_id       *)
(***************************************************************************)
\* raw pages in the document store; their ObjectIDs are 1..MaxPages in
\* insertion order, 0 stands for "no id" (a nil *ObjectID, an absent key)
MaxPages == 3
\* number of times the indexer process is started again
MaxRestarts == 1

VARIABLES
    cursorKey,     \* the key last_indexed_object_id of the k/v store
    lastID,        \* main: the local lastID
    mainPc,        \* main: "start", "loop", "feed", "returning", "exited"
    feed,          \* main: the docs of the page read that are not yet added
    lastProcessedID, \* main: the id GetBatchWebPage returned with the page
    documentChan,  \* Indexer.documentChan
    workerDocs,    \* Indexer.worker: the local docs of each worker
    indexedIDs,    \* history: ids of the raw pages whose batch was written
    cancelled,     \* ctx is cancelled (a shutdown signal arrived)
    drvFaults,     \* number of failures of a store so far
    restarts       \* number of restarts so far

drvVars == <<cursorKey, lastID, mainPc, feed, lastProcessedID, documentChan,
             workerDocs, indexedIDs, cancelled, drvFaults, restarts>>

\* cfg.BatchSize, also the limit of GetBatchWebPage
BatchSize == MaxDocs

RawIDs == 1..MaxPages

\* MongoClient.GetBatchWebPage: the pages with _id > lastID, sorted by _id,
\* limited to batchSize (no page ever has indexed = true: nothing sets it)
RECURSIVE IdsFrom(_, _)
IdsFrom(id, n) ==
    IF n = 0 \/ id > MaxPages THEN <<>> ELSE <<id>> \o IdsFrom(id + 1, n - 1)

GetBatchWebPage(batchSize, last) == IdsFrom(last + 1, batchSize)

\* the process ends: everything in its memory is gone
ProcessGone ==
    /\ mainPc' = "exited"
    /\ feed' = <<>>
    /\ lastProcessedID' = 0
    /\ lastID' = 0
    /\ documentChan' = <<>>
    /\ workerDocs' = [w \in IndexWorkers |-> <<>>]
    /\ cancelled' = FALSE

\* main, indexer mode: redisClient.Get("last_indexed_object_id"), then the
\* goroutine running idx.Start is launched
LoadCursor ==
    /\ mainPc = "start"
    /\ lastID' = cursorKey
    /\ mainPc' = "loop"
    /\ UNCHANGED <<cursorKey, feed, lastProcessedID, documentChan, workerDocs,
                   indexedIDs, cancelled, drvFaults, restarts>>

\* the shutdown signal: cancel()
Cancel ==
    /\ mainPc \in {"loop", "feed"}
    /\ ~cancelled
    /\ cancelled' = TRUE
    /\ UNCHANGED <<cursorKey, lastID, mainPc, feed, lastProcessedID, documentChan,
                   workerDocs, indexedIDs, drvFaults, restarts>>

\* main loop, case <-ctx.Done(): lastID is saved when it is not nil, then main
\* returns; the deferred idx.Close closes documentChan
SaveOnCancel(ok) ==
    /\ mainPc = "loop"
    /\ cancelled
    /\ ok \/ drvFaults < MaxFaults
    /\ drvFaults' = IF ok THEN drvFaults ELSE drvFaults + 1
    /\ cursorKey' = IF lastID # 0 /\ ok THEN lastID ELSE cursorKey
    /\ mainPc' = "returning"
    /\ UNCHANGED <<lastID, feed, lastProcessedID, documentChan, workerDocs,
                   indexedIDs, cancelled, restarts>>

\* main loop, default: GetBatchWebPage; an error is logged and the loop goes
\* on; an empty page makes main return; otherwise the docs are to be added
ReadPage(ok) ==
    /\ mainPc = "loop"
    /\ ~cancelled
    /\ ok \/ drvFaults < MaxFaults
    /\ drvFaults' = IF ok THEN drvFaults ELSE drvFaults + 1
    /\ LET docs == GetBatchWebPage(BatchSize, lastID)
       IN  IF ~ok THEN UNCHANGED <<mainPc, feed, lastProcessedID>>
           ELSE IF docs = <<>>
           THEN mainPc' = "returning" /\ UNCHANGED <<feed, lastProcessedID>>
           ELSE /\ mainPc' = "feed"
                /\ feed' = docs
                /\ lastProcessedID' = docs[Len(docs)]
    /\ UNCHANGED <<cursorKey, lastID, documentChan, workerDocs, indexedIDs,
                   cancelled, restarts>>

\* main loop: idx.AddDocument(doc) for the next doc of the page; it blocks
\* while documentChan is full; after the last doc, lastID = lastProcessedID
AddDocument ==
    /\ mainPc = "feed"
    /\ Len(documentChan) < BatchSize * 2
    /\ documentChan' = Append(documentChan, Head(feed))
    /\ feed' = Tail(feed)
    /\ IF Tail(feed) = <<>>
       THEN lastID' = lastProcessedID /\ mainPc' = "loop"
       ELSE UNCHANGED <<lastID, mainPc>>
    /\ UNCHANGED <<cursorKey, lastProcessedID, workerDocs, indexedIDs, cancelled,
                   drvFaults, restarts>>

\* Indexer.processDocuments on the docs of worker w: ProcessBatch writes the
\* batch, or fails and log.Fatalf ends the process (no deferred call runs)
processDocuments(w, docs, ok) ==
    IF ok
    THEN /\ indexedIDs' = indexedIDs \cup Range(docs)
         /\ workerDocs' = [workerDocs EXCEPT ![w] = <<>>]
         /\ UNCHANGED <<drvFaults, mainPc, feed, lastProcessedID, lastID, cancelled>>
    ELSE /\ drvFaults < MaxFaults
         /\ drvFaults' = drvFaults + 1
         /\ ProcessGone
         /\ UNCHANGED indexedIDs

\* Indexer.worker, case doc := <-documentChan: the doc is appended to docs,
\* and a full batch is processed
WorkerReceive(w, ok) ==
    /\ mainPc \in {"loop", "feed", "returning"}
    /\ documentChan # <<>>
    /\ LET docs == Append(workerDocs[w], Head(documentChan))
       IN  IF Len(docs) >= BatchSize
           THEN /\ processDocuments(w, docs, ok)
                /\ IF ok THEN documentChan' = Tail(documentChan) ELSE TRUE
           ELSE /\ ok
                /\ workerDocs' = [workerDocs EXCEPT ![w] = docs]
                /\ documentChan' = Tail(documentChan)
                /\ UNCHANGED <<indexedIDs, drvFaults, mainPc, feed, lastProcessedID,
                               lastID, cancelled>>
    /\ UNCHANGED <<cursorKey, restarts>>

\* Indexer.worker, case <-ticker.C, and the closed channel found empty: the
\* docs collected so far are processed
WorkerFlush(w, ok) ==
    /\ mainPc \in {"loop", "feed", "returning"}
    /\ workerDocs[w] # <<>>
    /\ mainPc = "returning" => documentChan = <<>>
    /\ processDocuments(w, workerDocs[w], ok)
    /\ IF ok THEN UNCHANGED documentChan ELSE TRUE
    /\ UNCHANGED <<cursorKey, restarts>>

\* the goroutine of main after idx.Start returned (documentChan closed and
\* drained, every worker done): its deferred function saves lastID
SaveAfterStart(ok) ==
    /\ mainPc = "returning"
    /\ documentChan = <<>>
    /\ \A w \in IndexWorkers : workerDocs[w] = <<>>
    /\ ok \/ drvFaults < MaxFaults
    /\ drvFaults' = IF ok THEN drvFaults ELSE drvFaults + 1
    /\ cursorKey' = IF lastID # 0 /\ ok THEN lastID ELSE cursorKey
    /\ indexedIDs' = indexedIDs
    /\ ProcessGone
    /\ UNCHANGED restarts

\* main has returned and the process exits, whatever the workers and the
\* goroutine of main were doing; or the process is killed while it runs
ProcessExit ==
    /\ mainPc \in {"loop", "feed", "returning"}
    /\ mainPc # "returning" => drvFaults < MaxFaults
    /\ drvFaults' = IF mainPc = "returning" THEN drvFaults ELSE drvFaults + 1
    /\ ProcessGone
    /\ UNCHANGED <<cursorKey, indexedIDs, restarts>>

\* the indexer is started again
RestartIndexer ==
    /\ mainPc = "exited"
    /\ restarts < MaxRestarts
    /\ restarts' = restarts + 1
    /\ mainPc' = "start"
    /\ UNCHANGED <<cursorKey, lastID, feed, lastProcessedID, documentChan,
                   workerDocs, indexedIDs, cancelled, drvFaults>>

InitDriver ==
    /\ cursorKey = 0
    /\ lastID = 0
    /\ mainPc = "start"
    /\ feed = <<>>
    /\ lastProcessedID = 0
    /\ documentChan = <<>>
    /\ workerDocs = [w \in IndexWorkers |-> <<>>]
    /\ indexedIDs = {}
    /\ cancelled = FALSE
    /\ drvFaults = 0
    /\ restarts = 0

(***************************************************************************)
(* Part V.  The query engine: Parse, term resolution, candidate selection, *)
(* ranking, pagination and result assembly of QueryEngine.Search           *)
(***************************************************************************)
\* number of searches answered
MaxSearches == 2
\* the largest page and the largest page size requested
MaxPage == 2
MaxPageSize == 2

\* ---- the regular expression of Parse: (\w+):("([^"]+)"|(\S+))
UpperCase == {"A", "B", "C", "E", "H", "O", "P", "R", "S", "T", "W", "X"}
\* \w and \S on the characters the model uses (no digits)
IsWord(c) == c \in Range(Alphabet) \cup UpperCase \cup {"_"}
IsSpace(c) == c = " "

\* \w when word is TRUE, \S otherwise
InClass(c, word) == IF word THEN IsWord(c) ELSE ~IsSpace(c)

\* the last position of the run of \w (word) or \S characters that starts at i
RunEnd(s, i, word) ==
    LET stops == {j \in i..Len(s) : ~InClass(s[j], word)}
    IN  IF stops = {} THEN Len(s) ELSE (CHOOSE j \in stops : \A k \in stops : j <= k) - 1

noMatch == [ok |-> FALSE, stop |-> 0, key |-> <<>>, value |-> <<>>, text |-> <<>>]

\* the value part of a match whose key is s[i..colon-1]: the quoted
\* alternative is tried first, the run of non-space characters second
MatchValue(s, i, colon) ==
    LET v      == colon + 1
        quotes == {c \in (v + 1)..Len(s) : s[c] = "\""}
        close  == IF quotes = {} THEN 0 ELSE CHOOSE c \in quotes : \A d \in quotes : c <= d
        stop   == RunEnd(s, v, FALSE)
    IN  IF v > Len(s) THEN noMatch
        ELSE IF s[v] = "\"" /\ close >= v + 2
        THEN [ok |-> TRUE, stop |-> close, key |-> SubSeq(s, i, colon - 1),
              value |-> SubSeq(s, v + 1, close - 1), text |-> SubSeq(s, i, close)]
        ELSE IF ~IsSpace(s[v])
        THEN [ok |-> TRUE, stop |-> stop, key |-> SubSeq(s, i, colon - 1),
              value |-> SubSeq(s, v, stop), text |-> SubSeq(s, i, stop)]
        ELSE noMatch

\* a match of the expression starting exactly at position i
MatchAt(s, i) ==
    IF ~IsWord(s[i]) THEN noMatch
    ELSE LET colon == RunEnd(s, i, TRUE) + 1
         IN  IF colon <= Len(s) /\ s[colon] = ":" THEN MatchValue(s, i, colon)
             ELSE noMatch

\* FindAllStringSubmatch(rawQuery, -1): the leftmost matches, not overlapping
RECURSIVE FindAllFrom(_, _)
FindAllFrom(s, i) ==
    IF i > Len(s) THEN <<>>
    ELSE IF MatchAt(s, i).ok THEN <<MatchAt(s, i)>> \o FindAllFrom(s, MatchAt(s, i).stop + 1)
    ELSE FindAllFrom(s, i + 1)

FindAllStringSubmatch(s) == FindAllFrom(s, 1)

\* strings.Replace(s, old, "", 1)
RemoveFirst(s, old) ==
    IF Index(s, old) = 0 THEN s
    ELSE SubSeq(s, 1, Index(s, old) - 1) \o SubSeq(s, Index(s, old) + Len(old), Len(s))

\* the loop of Parse over the matches: the filter map and the query without
\* the filters
RECURSIVE ExtractFilters(_, _, _)
ExtractFilters(matches, filters, rawQuery) ==
    IF matches = <<>> THEN [filters |-> filters, rawQuery |-> rawQuery]
    ELSE LET match == Head(matches)
             filterType == ToLower(match.key)
         IN  ExtractFilters(Tail(matches),
                 [k \in DOMAIN filters \cup {filterType} |->
                     IF k = filterType THEN match.value ELSE filters[k]],
                 RemoveFirst(rawQuery, match.text))

\* ---- the normalization pipeline on a query string
\* normalize on the characters the model uses: lower case, every character
\* that is not a letter or a space becomes a space (none of the patterns
\* removed before that occurs in the queries of the model)
normalize(text) ==
    [i \in 1..Len(text) |->
        IF LowerChar(text[i]) \in Range(Alphabet) THEN LowerChar(text[i]) ELSE " "]

\* strings.Fields
RECURSIVE Fields(_)
Fields(s) ==
    IF s = <<>> THEN <<>>
    ELSE IF IsSpace(s[1]) THEN Fields(Tail(s))
    ELSE LET stop == RunEnd(s, 1, FALSE)
         IN  <<SubSeq(s, 1, stop)>> \o Fields(SubSeq(s, stop + 1, Len(s)))

\* NormalizeText of the shared package: the pipeline of the indexer
NormalizeText(text) == normalizePageContent(Fields(normalize(text)))

\* ---- Parse
ParseExtracted(x, page, pageSize) ==
    [terms    |-> SelectSeq(NormalizeText(x.rawQuery), LAMBDA term : term # <<>>),
     operator |-> IF Contains(x.rawQuery, <<"\"">>) THEN "PHRASE"
                  ELSE IF Contains(x.rawQuery, <<"O", "R">>) THEN "OR"
                  ELSE "AND",
     page     |-> page,
     pageSize |-> pageSize,
     filters  |-> x.filters]

ParseQuery(rawQuery, page, pageSize) ==
    ParseExtracted(ExtractFilters(FindAllStringSubmatch(rawQuery), <<>>, rawQuery),
                   page, pageSize)

\* ---- the requests of the model
\* cat
qCat == <<"c","a","t">>
\* dogs cat
qDogsCat == <<"d","o","g","s"," ","c","a","t">>
\* dog dogs
qDogDogs == <<"d","o","g"," ","d","o","g","s">>
\* cat OR bird
qCatOrBird == <<"c","a","t"," ","O","R"," ","b","i","r","d">>
\* "dogs cat"
qPhraseDogsCat == <<"\"","d","o","g","s"," ","c","a","t","\"">>
\* "cat dogs"
qPhraseCatDogs == <<"\"","c","a","t"," ","d","o","g","s","\"">>
\* site:ex.co cat
qSiteCat == <<"s","i","t","e",":","e","x",".","c","o"," ","c","a","t">>
\* site:ex.co "cat bird"
qSitePhrase == <<"s","i","t","e",":","e","x",".","c","o"," ",
                 "\"","c","a","t"," ","b","i","r","d","\"">>
\* "dogs"
qPhraseDogs == <<"\"","d","o","g","s","\"">>
\* site:ex.co
qSiteOnly == <<"s","i","t","e",":","e","x",".","c","o">>
Queries == {qCat, qDogsCat, qDogDogs, qCatOrBird, qPhraseDogs, qPhraseDogsCat,
            qPhraseCatDogs, qSiteCat, qSitePhrase, qSiteOnly}

\* Parse on the queries of the model, computed once
Plans == [q \in Queries |-> ParseQuery(q, 1, 1)]
Parsed(rawQuery, page, pageSize) ==
    [Plans[rawQuery] EXCEPT !.page = page, !.pageSize = pageSize]

\* ---- the state of the query engine
VARIABLES
    engineTermCache, \* QueryEngine.termCache: term -> id
    postingCache,    \* QueryEngine.postingCache: term id -> postings
    idfCache,        \* QueryEngine.idfCache: term id -> idf
    docCache,        \* QueryEngine.docCache, the doc_len_ keys: doc id -> DocumentLength
    totalDocs,       \* QueryEngine.totalDocs
    avgTokenCount,   \* QueryEngine.avgTokenCount
    statsLastUpdate, \* QueryEngine.statsLastUpdate: 0, or 1 once a refresh stored it
    searches,        \* number of searches answered so far
    response         \* the last answer of Search, for as long as the index has
                     \* not been written since

queryVars == <<engineTermCache, postingCache, idfCache, docCache, totalDocs,
               avgTokenCount, statsLastUpdate, searches, response>>

\* ---- the statements of the query engine on the tables
StoredUrls == {u \in DOMAIN documents : documents[u].id # 0}
UrlOfDoc(id) == CHOOSE u \in StoredUrls : documents[u].id = id
PostingKeys(termIDs) == {k \in DOMAIN postings : k[1] \in termIDs}

\* the orders in which a statement without ORDER BY, or the iteration over a
\* Go map, may deliver the elements of S
RECURSIVE RowOrders(_)
RowOrders(S) ==
    IF S = {} THEN {<<>>}
    ELSE UNION {{<<x>> \o rest : rest \in RowOrders(S \ {x})} : x \in S}

\* the elements of a set of integers in ascending order
RECURSIVE Ascending(_)
Ascending(S) ==
    IF S = {} THEN <<>>
    ELSE LET least == CHOOSE x \in S : \A y \in S : x <= y
         IN  <<least>> \o Ascending(S \ {least})

\* getTermsBatch: term -> id for the terms present
getTermsBatch(missingTerms) ==
    [t \in {x \in Range(missingTerms) : x \in DOMAIN terms} |-> terms[t]]

\* getBooleanIntersection with the parameters $1 = termIDs, $2 = count
getBooleanIntersection(termIDs, count) ==
    {d \in {k[2] : k \in PostingKeys(Range(termIDs))} :
        Cardinality({k[1] : k \in {x \in PostingKeys(Range(termIDs)) : x[2] = d}}) = count}

\* getBooleanUnion
getBooleanUnion(termIDs) == {k[2] : k \in PostingKeys(Range(termIDs))}

\* s LIKE pattern: % stands for any run of characters, _ for any one character
RECURSIVE Like(_, _)
Like(s, pattern) ==
    IF pattern = <<>> THEN s = <<>>
    ELSE IF Head(pattern) = "%"
    THEN Like(s, Tail(pattern)) \/ (s # <<>> /\ Like(Tail(s), pattern))
    ELSE /\ s # <<>>
         /\ Head(pattern) = "_" \/ Head(pattern) = Head(s)
         /\ Like(Tail(s), Tail(pattern))

\* getSiteFilteredDocs: url LIKE '%' || $1 || '%'
getSiteFilteredDocs(site) ==
    {documents[u].id : u \in {x \in StoredUrls : Like(x, <<"%">> \o site \o <<"%">>)}}

\* getPostingsByTermIDBatch, ORDER BY term_id, doc_id: the rows of each term
\* in the order of their doc ids; a term without rows has no entry
PostingRows(termID) ==
    LET docs == Ascending({k[2] : k \in PostingKeys({termID})})
    IN  [i \in 1..Len(docs) |->
            [DocID |-> docs[i], Positions |-> postings[<<termID, docs[i]>>]]]

getPostingsByTermIDBatch(termIDs) ==
    [t \in {x \in termIDs : PostingKeys({x}) # {}} |-> PostingRows(t)]

\* a term without a row keeps its place in the plan, with an id no row has
resolveTermIDsKeepUnknown(plan, termMap) ==
    [termIDs   |-> [i \in 1..Len(plan.terms) |->
                       IF plan.terms[i] \in DOMAIN termMap THEN termMap[plan.terms[i]] ELSE 0],
     termCache |-> termMap @@ engineTermCache]

\* ---- QueryEngine.resolveTermIDsBatch: [termIDs, termCache]
resolveTermIDsFrom(plan, termMap) ==
    [termIDs   |-> LET known == SelectSeq(plan.terms, LAMBDA t : t \in DOMAIN termMap)
                   IN  [i \in 1..Len(known) |-> termMap[known[i]]],
     termCache |-> termMap @@ engineTermCache]

\* the ids are taken from the rows just fetched only: a term found in the
\* cache is left out of the plan
resolveTermIDsFetchedOnly(plan) ==
    resolveTermIDsFrom(plan,
        getTermsBatch(SelectSeq(plan.terms, LAMBDA t : t \notin DOMAIN engineTermCache)))

resolveTermIDsBatch(plan) ==
    resolveTermIDsFrom(plan,
        [t \in Range(plan.terms) \cap DOMAIN engineTermCache |-> engineTermCache[t]]
          @@ getTermsBatch(SelectSeq(plan.terms, LAMBDA t : t \notin DOMAIN engineTermCache)))

\* ---- QueryEngine.getPostingsBatch: [result, postingCache]
getPostingsBatch(termIDs) ==
    LET cached  == Range(termIDs) \cap DOMAIN postingCache
        fetched == getPostingsByTermIDBatch(Range(termIDs) \ cached)
    IN  [result       |-> [t \in cached |-> postingCache[t]] @@ fetched,
         postingCache |-> fetched @@ postingCache]

\* ---- QueryEngine.booleanSearchOptimized, with performIntersectionSearch and
\* performUnionSearch: the rows that pass the site filter (the order of the
\* rows is chosen where Search uses them)
hasSite(plan) == <<"s","i","t","e">> \in DOMAIN plan.filters
siteOf(plan) == plan.filters[<<"s","i","t","e">>]

performIntersectionSearch(termIDs, filtered, siteFilter) ==
    {d \in getBooleanIntersection(termIDs, Len(termIDs)) : ~filtered \/ d \in siteFilter}

performUnionSearch(termIDs, filtered, siteFilter) ==
    {d \in getBooleanUnion(termIDs) : ~filtered \/ d \in siteFilter}

booleanSearchFiltered(plan, termIDs, filtered, siteFilter) ==
    IF filtered /\ siteFilter = {} THEN {}
    ELSE IF plan.operator = "AND" THEN performIntersectionSearch(termIDs, filtered, siteFilter)
    ELSE performUnionSearch(termIDs, filtered, siteFilter)

booleanSearchOptimized(plan, termIDs) ==
    IF termIDs = <<>> THEN {}
    ELSE booleanSearchFiltered(plan, termIDs, hasSite(plan),
             IF hasSite(plan) THEN getSiteFilteredDocs(siteOf(plan)) ELSE {})

\* ---- QueryEngine.phraseSearchOptimized
PostingsOf(postingsByTerm, termID) ==
    IF termID \in DOMAIN postingsByTerm THEN postingsByTerm[termID] ELSE <<>>

\* findCommonDocuments: the documents of the first term, narrowed term by term
RECURSIVE findCommonFrom(_, _, _, _)
findCommonFrom(postingsByTerm, termIDs, i, commonDocs) ==
    IF i > Len(termIDs) \/ commonDocs = {} THEN commonDocs
    ELSE findCommonFrom(postingsByTerm, termIDs, i + 1,
             {d \in commonDocs :
                 \E n \in DOMAIN PostingsOf(postingsByTerm, termIDs[i]) :
                     PostingsOf(postingsByTerm, termIDs[i])[n].DocID = d})

findCommonDocuments(postingsByTerm, termIDs) ==
    IF termIDs = <<>> THEN {}
    ELSE findCommonFrom(postingsByTerm, termIDs, 2,
             {PostingsOf(postingsByTerm, termIDs[1])[n].DocID :
                 n \in DOMAIN PostingsOf(postingsByTerm, termIDs[1])})

\* the positions of the first posting of docID in a posting list, empty if none
RECURSIVE positionsIn(_, _)
positionsIn(list, docID) ==
    IF list = <<>> THEN <<>>
    ELSE IF Head(list).DocID = docID THEN Head(list).Positions
    ELSE positionsIn(Tail(list), docID)

\* checkConsecutiveFromPosition: startPos + int32(i) is looked up in the
\* positions of term i (i counts from 0 in the source, from 1 here)
RECURSIVE checkConsecutiveFromPosition(_, _, _)
checkConsecutiveFromPosition(startPos, termPositions, i) ==
    IF i > Len(termPositions) THEN TRUE
    ELSE IF Int32(startPos + (i - 1)) \in Range(termPositions[i])
    THEN checkConsecutiveFromPosition(startPos, termPositions, i + 1)
    ELSE FALSE

\* hasConsecutivePositions
hasConsecutivePositions(termPositions) ==
    /\ termPositions # <<>>
    /\ \E n \in DOMAIN termPositions[1] :
           checkConsecutiveFromPosition(termPositions[1][n], termPositions, 2)

\* every term has a posting for the document; the positions are not compared
checkPhraseMatchAnyOrder(docID, termIDs, postingsByTerm) ==
    \A i \in 1..Len(termIDs) :
        positionsIn(PostingsOf(postingsByTerm, termIDs[i]), docID) # <<>>

\* checkPhraseMatch
checkPhraseMatch(docID, termIDs, postingsByTerm) ==
    LET termPositions == [i \in 1..Len(termIDs) |->
                             positionsIn(PostingsOf(postingsByTerm, termIDs[i]), docID)]
    IN  /\ \A i \in 1..Len(termIDs) : termPositions[i] # <<>>
        /\ hasConsecutivePositions(termPositions)

\* the documents handed to the result slice by the matching workers (the
\* order of the appends is chosen where Search uses them)
phraseSearchOptimized(plan, termIDs, postingsByTerm) ==
    IF Len(termIDs) < 2 THEN booleanSearchOptimized(plan, termIDs)
    ELSE IF \E i \in 1..Len(termIDs) : PostingsOf(postingsByTerm, termIDs[i]) = <<>> THEN {}
    ELSE {d \in findCommonDocuments(postingsByTerm, termIDs) :
             checkPhraseMatch(d, termIDs, postingsByTerm)}

\* ---- float64 values: a finite number in thousandths, or -Inf, +Inf, NaN
Num(v) == [k |-> "num", v |-> v]
NegInf == [k |-> "-inf", v |-> 0]
PosInf == [k |-> "+inf", v |-> 0]
NaN == [k |-> "nan", v |-> 0]

\* 1000 * ln(n) for n = 1..4
LnMilli == <<0, 693, 1099, 1386>>
\* math.Log(n / d) for integers n >= 0 and d > 0
Log(n, d) == IF n = 0 THEN NegInf ELSE Num(LnMilli[n] - LnMilli[d])

\* a + b
Add(a, b) ==
    IF a.k = "nan" \/ b.k = "nan" THEN NaN
    ELSE IF a.k = "num" /\ b.k = "num" THEN Num(a.v + b.v)
    ELSE IF a.k = "num" THEN b
    ELSE IF b.k = "num" \/ a.k = b.k THEN a
    ELSE NaN

\* a > b
Greater(a, b) ==
    /\ a.k # "nan" /\ b.k # "nan"
    /\ \/ a.k = "num" /\ b.k = "num" /\ a.v > b.v
       \/ a.k = "+inf" /\ b.k # "+inf"
       \/ a.k # "-inf" /\ b.k = "-inf"

\* ---- QueryEngine.getIDFBatch: [result, idfCache]
\* getDocFrequencyBatch: COUNT(DISTINCT doc_id) of the terms that have rows
getDocFrequencyBatch(termIDs) ==
    [t \in {x \in termIDs : PostingKeys({x}) # {}} |->
        Cardinality({k[2] : k \in PostingKeys({t})})]

getIDFBatch(termIDs) ==
    LET cached == Range(termIDs) \cap DOMAIN idfCache
        rows   == getDocFrequencyBatch(Range(termIDs) \ cached)
        idf    == [t \in DOMAIN rows |-> Log(totalDocs, rows[t] + 1)]
    IN  [result   |-> [t \in cached |-> idfCache[t]] @@ idf,
         idfCache |-> idf @@ idfCache]

\* ---- QueryEngine.getDocumentLengthsBatch: [result, docCache]; Normalized is
\* kept as the fraction token_count / avgTokenCount
getDocumentLengthsBatch(docIDs) ==
    LET cached == Range(docIDs) \cap DOMAIN docCache
        rows   == {d \in Range(docIDs) \ cached :
                      \E u \in StoredUrls : documents[u].id = d}
        docLen == [d \in rows |->
                      [TokenCount |-> documents[UrlOfDoc(d)].token_count,
                       Normalized |-> [num |-> documents[UrlOfDoc(d)].token_count,
                                       den |-> avgTokenCount]]]
    IN  [result   |-> [d \in cached |-> docCache[d]] @@ docLen,
         docCache |-> docLen @@ docCache]

\* getTermFrequenciesBatch: array_length(positions, 1), 0 for a missing key
termFreq(docID, termID) ==
    IF <<termID, docID>> \in DOMAIN postings THEN Len(postings[<<termID, docID>>]) ELSE 0

\* ---- QueryEngine.calculateBM25Score
\* k1 in tenths and b in hundredths
BM25_K1 == 12
BM25_B == 75

\* idf * (tf * (k1 + 1)) / (tf + k1 * (1 - b + b * Normalized))
termScore(idf, tf, norm) ==
    IF norm.den = 0
    THEN IF norm.num = 0 \/ idf.k # "num" THEN NaN ELSE Num(0)
    ELSE IF idf.k # "num" THEN idf
    ELSE Num((idf.v * tf * (BM25_K1 + 10) * 100 * norm.den)
               \div (1000 * tf * norm.den + BM25_K1 * (100 - BM25_B) * norm.den
                       + BM25_K1 * BM25_B * norm.num))

RECURSIVE calculateBM25Score(_, _, _, _)
calculateBM25Score(docID, termIDs, docLength, idfValues) ==
    IF termIDs = <<>> THEN Num(0)
    ELSE IF termFreq(docID, Head(termIDs)) = 0 \/ Head(termIDs) \notin DOMAIN idfValues
    THEN calculateBM25Score(docID, Tail(termIDs), docLength, idfValues)
    ELSE Add(termScore(idfValues[Head(termIDs)], termFreq(docID, Head(termIDs)),
                       docLength.Normalized),
             calculateBM25Score(docID, Tail(termIDs), docLength, idfValues))

\* ---- sort.Slice by Score descending; fewer than 12 elements are sorted by
\* insertion, each element moving left while its score is greater
RECURSIVE insertByScore(_, _)
insertByScore(sorted, x) ==
    IF sorted = <<>> \/ ~Greater(x.Score, sorted[Len(sorted)].Score) THEN Append(sorted, x)
    ELSE Append(insertByScore(SubSeq(sorted, 1, Len(sorted) - 1), x), sorted[Len(sorted)])

RECURSIVE sortSlice(_, _)
sortSlice(sorted, rest) ==
    IF rest = <<>> THEN sorted
    ELSE sortSlice(insertByScore(sorted, Head(rest)), Tail(rest))

\* ---- QueryEngine.rankResultsOptimized
rankResultsOptimized(docIDs, termIDs, docLengths, idfValues) ==
    sortSlice(<<>>,
        [i \in 1..Len(docIDs) |->
            [DocID |-> docIDs[i],
             Score |-> calculateBM25Score(docIDs[i], termIDs,
                           IF docIDs[i] \in DOMAIN docLengths THEN docLengths[docIDs[i]]
                           ELSE [TokenCount |-> 0, Normalized |-> [num |-> 0, den |-> 1]],
                           idfValues)]])

\* ---- QueryEngine.fetchDocumentDetailsBatch: the rows that exist, in the
\* order of the page
fetchDocumentDetailsBatch(scoredDocs) ==
    LET found == SelectSeq(scoredDocs,
                     LAMBDA sd : \E u \in StoredUrls : documents[u].id = sd.DocID)
    IN  [i \in 1..Len(found) |->
            [DocID |-> found[i].DocID, URL |-> UrlOfDoc(found[i].DocID),
             Score |-> found[i].Score]]

\* ---- QueryEngine.Search
\* the slice scoredDocs[startIdx:endIdx]
pagedDocs(scoredDocs, startIdx, endIdx) ==
    IF startIdx >= Len(scoredDocs) THEN <<>>
    ELSE SubSeq(scoredDocs, startIdx + 1, Min(endIdx, Len(scoredDocs)))

noResponse ==
    [rawQuery |-> <<>>, plan |-> <<>>, termIDs |-> <<>>, postingsByTerm |-> <<>>,
     docIDs |-> <<>>, scoredDocs |-> <<>>, results |-> <<>>, total |-> 0]

\* what Search returns, with what it computed on the way
Answer(rawQuery, plan, termIDs, postingsByTerm, docIDs, scoredDocs) ==
    [rawQuery       |-> rawQuery,
     plan           |-> plan,
     termIDs        |-> termIDs,
     postingsByTerm |-> postingsByTerm,
     docIDs         |-> docIDs,
     scoredDocs     |-> scoredDocs,
     results        |-> fetchDocumentDetailsBatch(
                            pagedDocs(scoredDocs, (plan.page - 1) * plan.pageSize,
                                      (plan.page - 1) * plan.pageSize + plan.pageSize)),
     total          |-> Len(scoredDocs)]

SearchRanked(rawQuery, plan, termIDs, postingsByTerm, docIDs, lengths, idfs) ==
    /\ docCache' = lengths.docCache
    /\ idfCache' = idfs.idfCache
    /\ response' = Answer(rawQuery, plan, termIDs, postingsByTerm, docIDs,
                          rankResultsOptimized(docIDs, termIDs, lengths.result,
                                               idfs.result))

SearchRank(rawQuery, plan, termIDs, postingsByTerm, docIDs) ==
    IF docIDs = <<>>
    THEN /\ response' = Answer(rawQuery, plan, termIDs, postingsByTerm, <<>>, <<>>)
         /\ UNCHANGED <<docCache, idfCache>>
    ELSE SearchRanked(rawQuery, plan, termIDs, postingsByTerm, docIDs,
                      getDocumentLengthsBatch(docIDs), getIDFBatch(termIDs))

SearchPhrase(rawQuery, plan, termIDs, fetched) ==
    /\ postingCache' = fetched.postingCache
    /\ \E docIDs \in RowOrders(phraseSearchOptimized(plan, termIDs, fetched.result)) :
           SearchRank(rawQuery, plan, termIDs, fetched.result, docIDs)

SearchResolved(rawQuery, plan, resolved) ==
    /\ engineTermCache' = resolved.termCache
    /\ IF resolved.termIDs = <<>>
       THEN /\ response' = Answer(rawQuery, plan, <<>>, <<>>, <<>>, <<>>)
            /\ UNCHANGED <<postingCache, docCache, idfCache>>
       ELSE IF plan.operator = "PHRASE"
       THEN SearchPhrase(rawQuery, plan, resolved.termIDs,
                IF Len(resolved.termIDs) < 2
                THEN [result |-> <<>>, postingCache |-> postingCache]
                ELSE getPostingsBatch(resolved.termIDs))
       ELSE /\ UNCHANGED postingCache
            /\ \E docIDs \in RowOrders(booleanSearchOptimized(plan, resolved.termIDs)) :
                   SearchRank(rawQuery, plan, resolved.termIDs, <<>>, docIDs)

Search(rawQuery, page, pageSize) ==
    /\ searches < MaxSearches
    /\ searches' = searches + 1
    /\ IF Parsed(rawQuery, page, pageSize).terms = <<>>
       THEN /\ response' = Answer(rawQuery, Parsed(rawQuery, page, pageSize),
                                  <<>>, <<>>, <<>>, <<>>)
            /\ UNCHANGED <<engineTermCache, postingCache, docCache, idfCache>>
       ELSE SearchResolved(rawQuery, Parsed(rawQuery, page, pageSize),
                           resolveTermIDsBatch(Parsed(rawQuery, page, pageSize)))
    /\ UNCHANGED <<totalDocs, avgTokenCount, statsLastUpdate>>

\* ---- QueryEngine.refreshGlobalStats: COUNT(*) and AVG(token_count) of the
\* documents; the average of no rows is NULL, its Scan fails and the old
\* value stays; uint64(avg) drops the fraction
SumTokenCounts(urls) == SumOver(urls, [u \in urls |-> documents[u].token_count])

refreshGlobalStats ==
    /\ totalDocs' = Cardinality(StoredUrls)
    /\ avgTokenCount' = IF StoredUrls = {} THEN avgTokenCount
                        ELSE SumTokenCounts(StoredUrls) \div Cardinality(StoredUrls)
    /\ statsLastUpdate' = 1
    /\ UNCHANGED <<engineTermCache, postingCache, idfCache, docCache, searches, response>>

InitQuery ==
    /\ engineTermCache = <<>>
    /\ postingCache = <<>>
    /\ idfCache = <<>>
    /\ docCache = <<>>
    /\ totalDocs = 0
    /\ avgTokenCount = 0
    /\ statsLastUpdate = 0
    /\ searches = 0
    /\ response = noResponse

----------------------------------------------------------------------------
\* Part VI: the LRU cache of the query engine (LRUCache with ttl)

MaxCapacity == 2
MaxClock == 4
\* the ttl of a cache with expiry, in ticks of the clock
CacheTtl == 2
MaxValue == 2
CacheKeys == {"k1", "k2", "k3"}
CacheValues == 1..MaxValue

VARIABLES
    lruCapacity, \* LRUCache.capacity
    lruTtl,      \* LRUCache.ttl
    lruCache,    \* LRUCache.cache: the keys that have an element
    lruList,     \* LRUCache.list, front first: [key, value, expiresAt]
    clock,       \* time.Now()
    lruReturn,   \* the last call on the cache and what it returned
    writtenAt    \* history: key -> the time of the last Put of the key

cacheVars == <<lruCapacity, lruTtl, lruCache, lruList, clock, lruReturn, writtenAt>>

\* time.Time{}
zeroTime == 0

\* at: the time of the call; value: the value put or got, for cleanup the
\* number of elements it removed; evicted: the key that Put removed from the back
\* or that Get removed as expired, "" when the call removed none
returned(op, key, value, ok) ==
    [op |-> op, key |-> key, value |-> value, ok |-> ok, at |-> clock, evicted |-> ""]

\* the element the map holds for a key: its place in the list, 0 when the
\* list has no such element
ElemOf(list, key) ==
    IF \E i \in 1..Len(list) : list[i].key = key
    THEN CHOOSE i \in 1..Len(list) : list[i].key = key
    ELSE 0

\* list.Remove
Remove(list, i) == SubSeq(list, 1, i - 1) \o SubSeq(list, i + 1, Len(list))
\* list.MoveToFront
MoveToFront(list, i) == <<list[i]>> \o Remove(list, i)

\* ---- LRUCache.removeElement: [cache, list]
removeElement(cache, list, i) ==
    [cache |-> cache \ {list[i].key}, list |-> Remove(list, i)]

\* an expired item is kept for one more tick
AfterGrace(now, expiresAt) == now > expiresAt + 1

\* item.expiresAt lies before now
After(now, expiresAt) == now > expiresAt

\* ---- LRUCache.Get
GetFound(key, i) ==
    IF lruTtl > 0 /\ After(clock, lruList[i].expiresAt)
    THEN /\ lruCache' = removeElement(lruCache, lruList, i).cache
         /\ lruList' = removeElement(lruCache, lruList, i).list
         /\ lruReturn' = [returned("Get", key, 0, FALSE) EXCEPT !.evicted = key]
    ELSE /\ lruList' = MoveToFront(lruList, i)
         /\ lruReturn' = returned("Get", key, lruList[i].value, TRUE)
         /\ UNCHANGED lruCache

Get(key) ==
    /\ IF key \in lruCache
       THEN GetFound(key, ElemOf(lruList, key))
       ELSE /\ lruReturn' = returned("Get", key, 0, FALSE)
            /\ UNCHANGED <<lruCache, lruList>>
    /\ UNCHANGED <<lruCapacity, lruTtl, clock, writtenAt>>

\* ---- LRUCache.Put
\* now.Add(ttl), the zero time without ttl
expiresAtOf(now) == IF lruTtl = 0 THEN zeroTime ELSE now + lruTtl

\* the element at the front goes instead of the one at the back
evictedFront(cache, list) ==
    IF Len(list) >= lruCapacity /\ list # <<>>
    THEN removeElement(cache, list, 1)
    ELSE [cache |-> cache, list |-> list]

\* the eviction of Put: the element at the back goes when the list is as long
\* as the capacity or longer and has a back
evicted(cache, list) ==
    IF Len(list) >= lruCapacity /\ list # <<>>
    THEN removeElement(cache, list, Len(list))
    ELSE [cache |-> cache, list |-> list]

Put(key, value) ==
    /\ IF key \in lruCache
       THEN /\ lruList' = MoveToFront(
                   [lruList EXCEPT ![ElemOf(lruList, key)].value = value,
                                   ![ElemOf(lruList, key)].expiresAt = expiresAtOf(clock)],
                   ElemOf(lruList, key))
            /\ UNCHANGED lruCache
       ELSE /\ lruList' = <<[key |-> key, value |-> value, expiresAt |-> expiresAtOf(clock)]>>
                             \o evicted(lruCache, lruList).list
            /\ lruCache' = evicted(lruCache, lruList).cache \cup {key}
    /\ lruReturn' = [returned("Put", key, value, TRUE) EXCEPT !.evicted =
                         IF key \in lruCache \/ evicted(lruCache, lruList).list = lruList
                         THEN "" ELSE lruList[Len(lruList)].key]
    /\ writtenAt' = [k \in DOMAIN writtenAt \cup {key} |->
                        IF k = key THEN clock ELSE writtenAt[k]]
    /\ UNCHANGED <<lruCapacity, lruTtl, clock>>

\* ---- LRUCache.cleanup: one tick of the ticker
\* the sweep stops after the first expired element
toRemoveOne(list, now) ==
    IF list # <<>> /\ After(now, list[Len(list)].expiresAt) THEN 1 ELSE 0

\* the elements collected from the back until the first that has not expired
RECURSIVE toRemove(_, _)
toRemove(list, now) ==
    IF list # <<>> /\ After(now, list[Len(list)].expiresAt)
    THEN 1 + toRemove(SubSeq(list, 1, Len(list) - 1), now)
    ELSE 0

cleanup ==
    /\ lruTtl # 0
    /\ lruList' = SubSeq(lruList, 1, Len(lruList) - toRemove(lruList, clock))
    /\ lruCache' = lruCache \ {lruList[i].key :
                        i \in (Len(lruList) - toRemove(lruList, clock) + 1)..Len(lruList)}
    /\ lruReturn' = returned("cleanup", "", toRemove(lruList, clock), TRUE)
    /\ UNCHANGED <<lruCapacity, lruTtl, clock, writtenAt>>

\* ---- LRUCache.Clear
Clear ==
    /\ lruCache' = {}
    /\ lruList' = <<>>
    /\ lruReturn' = returned("Clear", "", 0, TRUE)
    /\ UNCHANGED <<lruCapacity, lruTtl, clock, writtenAt>>

\* time passes
Tick ==
    /\ clock < MaxClock
    /\ clock' = clock + 1
    /\ UNCHANGED <<lruCapacity, lruTtl, lruCache, lruList, lruReturn, writtenAt>>

\* ---- NewLRUCache
NewLRUCache(capacity, ttl) ==
    /\ lruCapacity = capacity
    /\ lruTtl = ttl
    /\ lruCache = {}
    /\ lruList = <<>>
    /\ clock = 1
    /\ lruReturn = returned("NewLRUCache", "", 0, TRUE)
    /\ writtenAt = <<>>

InitCache == NewLRUCache(MaxCapacity, CacheTtl)

----------------------------------------------------------------------------
\* Part VII: one fetcher worker, Worker.Start statement by statement, with
\* its semaphore, its fetch tasks and the two signals

\* the longest batch NextBatch returns
MaxItems == 6
\* batches one behaviour of the worker takes
MaxRounds == 2
\* fetches of one batch that return a page
MaxFetched == 2
\* const maxConcurrentCrawls
maxConcurrentCrawls == 5

VARIABLES
    fetcher,    \* position inside Worker.Start: [pc, batchItems, k, rounds]
    task,       \* item index -> the fetch task of the item: [pc, seen]
    sem,        \* number of tokens in the channel sem
    batchWg,    \* counter of batchWg
    pagesData,  \* the slice pagesData: the items whose pages were appended
    ctxDone,    \* ctx is cancelled
    stopClosed, \* stopChan is closed
    reported    \* history: item index -> "Done" / "Fail" / "" (not reported)

fetchVars == <<fetcher, task, sem, batchWg, pagesData, ctxDone, stopClosed, reported>>

\* the batches NextBatch returns: TRUE is an item with a URL, FALSE one with
\* an empty URL
FetchBatches ==
    {<<TRUE, TRUE>>, <<TRUE, FALSE, TRUE>>, [i \in 1..MaxItems |-> TRUE]}

noTask == [pc |-> "none", seen |-> <<>>]
noTasks == [i \in 1..MaxItems |-> noTask]
noReports == [i \in 1..MaxItems |-> ""]

\* a case of the select statements on the two signals is ready
signalled == ctxDone \/ stopClosed

\* ---- the select at the top of the loop: a ready signal returns, default
\* runs only when no signal is ready
SelectSignal ==
    /\ fetcher.pc = "select"
    /\ signalled
    /\ fetcher' = [fetcher EXCEPT !.pc = "returned"]
    /\ UNCHANGED <<task, sem, batchWg, pagesData, ctxDone, stopClosed, reported>>

SelectDefault ==
    /\ fetcher.pc = "select"
    /\ ~signalled
    /\ fetcher.rounds < MaxRounds
    /\ fetcher' = [fetcher EXCEPT !.pc = "NextBatch"]
    /\ UNCHANGED <<task, sem, batchWg, pagesData, ctxDone, stopClosed, reported>>

\* ---- frontier.NextBatch returns: a batch, "frontier is empty" or another
\* error; with a fresh pagesData and batchWg for the batch
NextBatchReturns(batchItems) ==
    /\ fetcher.pc = "NextBatch"
    /\ fetcher' = [fetcher EXCEPT !.pc = "range", !.batchItems = batchItems, !.k = 1,
                                  !.rounds = @ + 1]
    /\ task' = noTasks
    /\ pagesData' = <<>>
    /\ batchWg' = 0
    /\ reported' = noReports
    /\ UNCHANGED <<sem, ctxDone, stopClosed>>

NextBatchEmpty ==
    /\ fetcher.pc = "NextBatch"
    /\ fetcher' = [fetcher EXCEPT !.pc = "sleep", !.rounds = @ + 1]
    /\ UNCHANGED <<task, sem, batchWg, pagesData, ctxDone, stopClosed, reported>>

NextBatchError ==
    /\ fetcher.pc = "NextBatch"
    /\ fetcher' = [fetcher EXCEPT !.pc = "returned"]
    /\ UNCHANGED <<task, sem, batchWg, pagesData, ctxDone, stopClosed, reported>>

\* the select of the sleep after "frontier is empty": a signal returns, the
\* timer continues the loop; when several cases are ready any of them runs
SleepSignal ==
    /\ fetcher.pc = "sleep"
    /\ signalled
    /\ fetcher' = [fetcher EXCEPT !.pc = "returned"]
    /\ UNCHANGED <<task, sem, batchWg, pagesData, ctxDone, stopClosed, reported>>

SleepTimer ==
    /\ fetcher.pc = "sleep"
    /\ fetcher' = [fetcher EXCEPT !.pc = "select"]
    /\ UNCHANGED <<task, sem, batchWg, pagesData, ctxDone, stopClosed, reported>>

\* ---- the loop over batchItems
\* the send on sem would block
semFullNever == FALSE

semFull == sem >= maxConcurrentCrawls

\* an item with an empty URL is skipped
RangeSkip ==
    /\ fetcher.pc = "range"
    /\ fetcher.k <= Len(fetcher.batchItems)
    /\ ~fetcher.batchItems[fetcher.k]
    /\ fetcher' = [fetcher EXCEPT !.k = @ + 1]
    /\ UNCHANGED <<task, sem, batchWg, pagesData, ctxDone, stopClosed, reported>>

\* sem <- struct{}{}, batchWg.Add(1) and the go statement
RangeLaunch ==
    /\ fetcher.pc = "range"
    /\ fetcher.k <= Len(fetcher.batchItems)
    /\ fetcher.batchItems[fetcher.k]
    /\ ~semFull
    /\ sem' = sem + 1
    /\ batchWg' = batchWg + 1
    /\ task' = [task EXCEPT ![fetcher.k] = [pc |-> "crawl", seen |-> <<>>]]
    /\ fetcher' = [fetcher EXCEPT !.k = @ + 1]
    /\ UNCHANGED <<pagesData, ctxDone, stopClosed, reported>>

\* the loop is over: batchWg.Wait() returns when the counter is 0
RangeEnd ==
    /\ fetcher.pc = "range"
    /\ fetcher.k > Len(fetcher.batchItems)
    /\ batchWg = 0
    /\ fetcher' = [fetcher EXCEPT !.pc = "insert"]
    /\ UNCHANGED <<task, sem, batchWg, pagesData, ctxDone, stopClosed, reported>>

\* w.db.AddBatchWebPage(pagesData), then the top of the loop
InsertBatch ==
    /\ fetcher.pc = "insert"
    /\ fetcher' = [fetcher EXCEPT !.pc = "select"]
    /\ UNCHANGED <<task, sem, batchWg, pagesData, ctxDone, stopClosed, reported>>

\* ---- the fetch task of item i
\* CrawlPage returns; on an error Fail is reported; on success Done is
\* reported and the task reads pagesData for its append
Crawl(i, ok) ==
    /\ task[i].pc = "crawl"
    /\ ok => Cardinality({j \in 1..MaxItems : reported[j] = "Done"}) < MaxFetched
    /\ reported' = [reported EXCEPT ![i] = IF ok THEN "Done" ELSE "Fail"]
    /\ task' = [task EXCEPT ![i] = IF ok THEN [pc |-> "append", seen |-> pagesData]
                                   ELSE [pc |-> "sleep", seen |-> <<>>]]
    /\ UNCHANGED <<fetcher, sem, batchWg, pagesData, ctxDone, stopClosed>>

\* pagesData = append(pagesData, pageData): the store of the slice built from
\* what the task read; the tasks of a batch do this without a lock
AppendPage(i) ==
    /\ task[i].pc = "append"
    /\ pagesData' = Append(task[i].seen, i)
    /\ task' = [task EXCEPT ![i] = [pc |-> "sleep", seen |-> <<>>]]
    /\ UNCHANGED <<fetcher, sem, batchWg, ctxDone, stopClosed, reported>>

\* the select of the politeness delay ends (timer or signal), then the
\* deferred <-sem and batchWg.Done()
TaskEnd(i) ==
    /\ task[i].pc = "sleep"
    /\ sem' = sem - 1
    /\ batchWg' = batchWg - 1
    /\ task' = [task EXCEPT ![i] = [pc |-> "done", seen |-> <<>>]]
    /\ UNCHANGED <<fetcher, pagesData, ctxDone, stopClosed, reported>>

\* ---- the signals: RunCrawler's cancel() and Worker.Stop
CancelCtx ==
    /\ ~ctxDone
    /\ ctxDone' = TRUE
    /\ UNCHANGED <<fetcher, task, sem, batchWg, pagesData, stopClosed, reported>>

Stop ==
    /\ stopClosed' = TRUE
    /\ ~stopClosed
    /\ UNCHANGED <<fetcher, task, sem, batchWg, pagesData, ctxDone, reported>>

InitFetcher ==
    /\ fetcher = [pc |-> "select", batchItems |-> <<>>, k |-> 1, rounds |-> 0]
    /\ task = noTasks
    /\ sem = 0
    /\ batchWg = 0
    /\ pagesData = <<>>
    /\ ctxDone = FALSE
    /\ stopClosed = FALSE
    /\ reported = noReports

\* Part XII: Spider.RunCrawler, the workers it starts and the two wait groups
\* largest cfg.Workers
MaxCfgWorkers == 3

VARIABLES
    spider,     \* RunCrawler: pc, the loop index i, cfg.Workers
    spiderWg,   \* the counter of c.wg
    doneChan,   \* the channel done is closed
    waiter,     \* the goroutine around c.wg.Wait
    crawlCtx,   \* crawlCtx is cancelled
    pool,       \* each worker: pc, its field wg, its stopChan
    crashed     \* a goroutine panicked and the runtime ended the process

spiderVars == <<spider, spiderWg, doneChan, waiter, crawlCtx, pool, crashed>>

PoolIds == 1..MaxCfgWorkers
noWorker == [pc |-> "none", wg |-> "nil", stopClosed |-> FALSE]

\* NewWorker: var wg *sync.WaitGroup is nil and is stored in the field wg
NewWorker == [pc |-> "loop", wg |-> "nil", stopClosed |-> FALSE]

\* RunCrawler is called with cfg.Workers = n (0 starts no worker)
RunCrawler(n) ==
    /\ ~crashed
    /\ spider.pc = "idle"
    /\ spider' = [pc |-> "launch", i |-> 1, n |-> n]
    /\ UNCHANGED <<spiderWg, doneChan, waiter, crawlCtx, pool, crashed>>

\* the loop of RunCrawler: NewWorker, c.wg.Add(1), go workers[i].Start
LaunchWorker ==
    /\ ~crashed
    /\ spider.pc = "launch"
    /\ spider.i <= spider.n
    /\ pool' = [pool EXCEPT ![spider.i] = NewWorker]
    /\ spiderWg' = spiderWg + 1
    /\ spider' = [spider EXCEPT !.i = @ + 1]
    /\ UNCHANGED <<doneChan, waiter, crawlCtx, crashed>>

\* after the loop: the goroutine that waits on c.wg is started and
\* RunCrawler reaches its select
StartWaiter ==
    /\ ~crashed
    /\ spider.pc = "launch"
    /\ spider.i > spider.n
    /\ waiter' = "wait"
    /\ spider' = [spider EXCEPT !.pc = "select"]
    /\ UNCHANGED <<spiderWg, doneChan, crawlCtx, pool, crashed>>

\* Worker.Start leaves its loop by a return: on ctx.Done, on stopChan, or
\* on an error of NextBatch other than "frontier is empty"
LeaveLoop(w, nextBatchError) ==
    /\ ~crashed
    /\ pool[w].pc = "loop"
    /\ crawlCtx \/ pool[w].stopClosed \/ nextBatchError
    /\ pool' = [pool EXCEPT ![w] = [@ EXCEPT !.pc = "deferred"]]
    /\ UNCHANGED <<spider, spiderWg, doneChan, waiter, crawlCtx, crashed>>

\* the deferred w.wg.Done() of Start: on a nil *sync.WaitGroup it panics
\* with a nil pointer dereference, which nothing recovers
DeferredDone(w) ==
    /\ ~crashed
    /\ pool[w].pc = "deferred"
    /\ IF pool[w].wg = "nil"
       THEN /\ pool' = [pool EXCEPT ![w] = [@ EXCEPT !.pc = "panicked"]]
            /\ crashed' = TRUE
            /\ UNCHANGED spiderWg
       ELSE /\ pool' = [pool EXCEPT ![w] = [@ EXCEPT !.pc = "returned"]]
            /\ spiderWg' = spiderWg - 1
            /\ UNCHANGED crashed
    /\ UNCHANGED <<spider, doneChan, waiter, crawlCtx>>

\* c.wg.Wait() returns, close(pageChan), close(done)
WaiterCloses ==
    /\ ~crashed
    /\ waiter = "wait"
    /\ spiderWg = 0
    /\ waiter' = "closed"
    /\ doneChan' = TRUE
    /\ UNCHANGED <<spider, spiderWg, crawlCtx, pool, crashed>>

\* the context handed to RunCrawler is cancelled (a shutdown signal)
CancelCrawl ==
    /\ ~crashed
    /\ spider.pc # "idle"
    /\ ~crawlCtx
    /\ crawlCtx' = TRUE
    /\ UNCHANGED <<spider, spiderWg, doneChan, waiter, pool, crashed>>

\* the select of RunCrawler returns, every worker is stopped, RunCrawler
\* returns and its deferred cancel runs
StopAll ==
    /\ ~crashed
    /\ spider.pc = "select"
    /\ crawlCtx \/ doneChan
    /\ pool' = [w \in PoolIds |->
                   IF pool[w].pc = "none" THEN pool[w]
                   ELSE [pool[w] EXCEPT !.stopClosed = TRUE]]
    /\ spider' = [spider EXCEPT !.pc = "returned"]
    /\ crawlCtx' = TRUE
    /\ UNCHANGED <<spiderWg, doneChan, waiter, crashed>>

InitSpider ==
    /\ spider = [pc |-> "idle", i |-> 0, n |-> 0]
    /\ spiderWg = 0
    /\ doneChan = FALSE
    /\ waiter = "none"
    /\ crawlCtx = FALSE
    /\ pool = [w \in PoolIds |-> noWorker]
    /\ crashed = FALSE

\* Part XI: Indexer.Start, its workers and documentChan, batch by batch
\* number of documents handed to AddDocument in one behaviour
MaxSent == 4

VARIABLES
    ixChan,      \* documentChan: the documents in the buffer
    ixClosed,    \* Close has run
    ixDocs,      \* each worker: its local docs
    ixPc,        \* each worker: "run" or "returned"
    ixWg,        \* the counter of wg in Start
    ixStart,     \* Start: "running", "returned", or "fatal" (the process ended)
    ixSent,      \* number of documents handed to AddDocument so far
    ixBatches    \* history: the batches handed to processDocuments, in order

ixVars == <<ixChan, ixClosed, ixDocs, ixPc, ixWg, ixStart, ixSent, ixBatches>>

\* AddDocument: the send blocks while the buffer of 2 * batchSize is full
SendDocument ==
    /\ ixStart # "fatal"
    /\ ~ixClosed
    /\ ixSent < MaxSent
    /\ Len(ixChan) < BatchSize * 2
    /\ ixChan' = Append(ixChan, ixSent + 1)
    /\ ixSent' = ixSent + 1
    /\ UNCHANGED <<ixClosed, ixDocs, ixPc, ixWg, ixStart, ixBatches>>

\* Close: close(i.documentChan)
CloseChan ==
    /\ ixStart # "fatal"
    /\ ~ixClosed
    /\ ixClosed' = TRUE
    /\ UNCHANGED <<ixChan, ixDocs, ixPc, ixWg, ixStart, ixSent, ixBatches>>

\* processDocuments called by worker w for a cause: the batch is written, or
\* ProcessBatch fails and log.Fatalf ends the process
ProcessDocs(w, docs, cause, ok) ==
    /\ ixBatches' = Append(ixBatches, [worker |-> w, docs |-> docs, cause |-> cause])
    /\ ixStart' = IF ok THEN ixStart ELSE "fatal"

\* worker, case doc, ok := <-i.documentChan with ok true: append, and process
\* when len(docs) >= batchSize
WorkerDoc(w, ok) ==
    /\ ixStart # "fatal"
    /\ ixPc[w] = "run"
    /\ ixChan # <<>>
    /\ ixChan' = Tail(ixChan)
    /\ LET docs == Append(ixDocs[w], Head(ixChan))
       IN  IF Len(docs) >= BatchSize
           THEN /\ ProcessDocs(w, docs, "full", ok)
                /\ ixDocs' = [ixDocs EXCEPT ![w] = <<>>]
           ELSE /\ ok
                /\ ixDocs' = [ixDocs EXCEPT ![w] = docs]
                /\ UNCHANGED <<ixBatches, ixStart>>
    /\ UNCHANGED <<ixClosed, ixPc, ixWg, ixSent>>

\* worker, case <-ticker.C: a non-empty docs is processed
WorkerTick(w, ok) ==
    /\ ixStart # "fatal"
    /\ ixPc[w] = "run"
    /\ ixDocs[w] # <<>>
    /\ ProcessDocs(w, ixDocs[w], "tick", ok)
    /\ ixDocs' = [ixDocs EXCEPT ![w] = <<>>]
    /\ UNCHANGED <<ixChan, ixClosed, ixPc, ixWg, ixSent>>

\* a worker that returns on the closed channel without processing its docs
WorkerClosedDrop(w, ok) ==
    /\ ixStart # "fatal"
    /\ ixPc[w] = "run"
    /\ ixChan = <<>> /\ ixClosed
    /\ ok
    /\ ixDocs' = [ixDocs EXCEPT ![w] = <<>>]
    /\ ixPc' = [ixPc EXCEPT ![w] = "returned"]
    /\ ixWg' = ixWg - 1
    /\ UNCHANGED <<ixChan, ixClosed, ixSent, ixBatches, ixStart>>

\* worker, case doc, ok := <-i.documentChan with ok false (closed and
\* drained): a non-empty docs is processed, the worker returns and its
\* deferred wg.Done runs
WorkerClosed(w, ok) ==
    /\ ixStart # "fatal"
    /\ ixPc[w] = "run"
    /\ ixChan = <<>> /\ ixClosed
    /\ IF ixDocs[w] # <<>>
       THEN ProcessDocs(w, ixDocs[w], "closed", ok)
       ELSE ok /\ UNCHANGED <<ixBatches, ixStart>>
    /\ ixDocs' = [ixDocs EXCEPT ![w] = <<>>]
    /\ ixPc' = IF ok THEN [ixPc EXCEPT ![w] = "returned"] ELSE ixPc
    /\ ixWg' = IF ok THEN ixWg - 1 ELSE ixWg
    /\ UNCHANGED <<ixChan, ixClosed, ixSent>>

\* Start: wg.Wait() has returned
StartReturns ==
    /\ ixStart = "running"
    /\ ixWg = 0
    /\ ixStart' = "returned"
    /\ UNCHANGED <<ixChan, ixClosed, ixDocs, ixPc, ixWg, ixSent, ixBatches>>

\* NewIndexer, and Start up to wg.Wait: wg.Add(i.workers), one goroutine per
\* worker
InitIx ==
    /\ ixChan = <<>>
    /\ ixClosed = FALSE
    /\ ixDocs = [w \in IndexWorkers |-> <<>>]
    /\ ixPc = [w \in IndexWorkers |-> "run"]
    /\ ixWg = Cardinality(IndexWorkers)
    /\ ixStart = "running"
    /\ ixSent = 0
    /\ ixBatches = <<>>

\* Part X: the LRU cache called from several goroutines: c.mu, and each
\* method as the steps it takes while it holds the lock
VARIABLES
    mu,        \* c.mu: the goroutine holding the write lock, those holding read locks
    caller     \* each goroutine: the method it is in and what it has read

lockVars == <<mu, caller>>

\* two goroutines calling the methods, and the goroutine NewLRUCache starts
Callers == {"g1", "g2"}
Goroutines == Callers \cup {"sweeper"}
LockedOps == {"Get", "Put", "Clear"}

noCall == [pc |-> "idle", op |-> "", key |-> "", ok |-> FALSE, size |-> 0]

\* a lock that is granted whoever holds it
mutexFreeAlways == TRUE
\* c.mu.Lock() returns when no goroutine holds the lock, for writing or reading
mutexFree == mu.writer = "" /\ mu.readers = {}

\* c.mu.Lock() at the top of Get, Put and Clear, and in the loop of cleanup
\* (which has returned for good when ttl is 0)
LockCall(g, op, key) ==
    /\ caller[g].pc = "idle"
    /\ IF g = "sweeper" THEN op = "cleanup" /\ key = "" /\ lruTtl # 0
       ELSE op \in LockedOps /\ (op = "Clear" <=> key = "")
    /\ mutexFree
    /\ mu' = [mu EXCEPT !.writer = g]
    /\ caller' = [caller EXCEPT ![g] = [noCall EXCEPT !.pc = "locked", !.op = op,
                                                      !.key = key]]
    /\ UNCHANGED cacheVars

\* elem, ok := c.cache[key] of Get and Put
Lookup(g) ==
    /\ caller[g].pc = "locked"
    /\ caller' = [caller EXCEPT ![g] = [@ EXCEPT !.pc = "body",
                                                 !.ok = caller[g].key \in lruCache]]
    /\ UNCHANGED <<mu, cacheVars>>

\* Get after the lookup; list.MoveToFront and list.Remove leave the list as
\* it is for an element that is no longer in it
GetBody(key, ok) ==
    LET i == ElemOf(lruList, key)
    IN  IF ok /\ i # 0
        THEN IF lruTtl > 0 /\ After(clock, lruList[i].expiresAt)
             THEN /\ lruCache' = removeElement(lruCache, lruList, i).cache
                  /\ lruList' = removeElement(lruCache, lruList, i).list
             ELSE /\ lruList' = MoveToFront(lruList, i)
                  /\ UNCHANGED lruCache
        ELSE UNCHANGED <<lruCache, lruList>>

\* Put after the lookup
PutBody(key, value, ok) ==
    LET i == ElemOf(lruList, key)
    IN  IF ok
        THEN /\ lruList' = IF i = 0 THEN lruList
                           ELSE MoveToFront(
                                    [lruList EXCEPT ![i].value = value,
                                                    ![i].expiresAt = expiresAtOf(clock)], i)
             /\ UNCHANGED lruCache
        ELSE /\ lruList' = <<[key |-> key, value |-> value,
                              expiresAt |-> expiresAtOf(clock)]>>
                              \o evicted(lruCache, lruList).list
             /\ lruCache' = evicted(lruCache, lruList).cache \cup {key}

\* one pass of the loop of cleanup
CleanupBody ==
    /\ lruList' = SubSeq(lruList, 1, Len(lruList) - toRemove(lruList, clock))
    /\ lruCache' = lruCache \ {lruList[i].key :
                        i \in (Len(lruList) - toRemove(lruList, clock) + 1)..Len(lruList)}

\* Clear
ClearBody == lruCache' = {} /\ lruList' = <<>>

\* the rest of the method, up to its return (the deferred Unlock is Unlock)
Body(g) ==
    /\ caller[g].pc = "body"
    /\ IF caller[g].op = "Get" THEN GetBody(caller[g].key, caller[g].ok)
       ELSE IF caller[g].op = "Put" THEN PutBody(caller[g].key, 1, caller[g].ok)
       ELSE IF caller[g].op = "Clear" THEN ClearBody
       ELSE CleanupBody
    /\ caller' = [caller EXCEPT ![g] = [@ EXCEPT !.pc = "unlock"]]
    /\ UNCHANGED <<mu, lruCapacity, lruTtl, clock, lruReturn, writtenAt>>

\* c.mu.Unlock()
Unlock(g) ==
    /\ caller[g].pc = "unlock"
    /\ mu' = [mu EXCEPT !.writer = IF @ = g THEN "" ELSE @]
    /\ caller' = [caller EXCEPT ![g] = noCall]
    /\ UNCHANGED cacheVars

\* Size: c.mu.RLock() returns when no goroutine holds the write lock
SizeRLock(g) ==
    /\ g \in Callers
    /\ caller[g].pc = "idle"
    /\ mu.writer = ""
    /\ mu' = [mu EXCEPT !.readers = @ \cup {g}]
    /\ caller' = [caller EXCEPT ![g] = [noCall EXCEPT !.pc = "rlocked", !.op = "Size"]]
    /\ UNCHANGED cacheVars

\* Size: c.list.Len()
SizeLen(g) ==
    /\ caller[g].pc = "rlocked"
    /\ caller' = [caller EXCEPT ![g] = [@ EXCEPT !.pc = "runlock", !.size = Len(lruList)]]
    /\ UNCHANGED <<mu, cacheVars>>

\* Size: the deferred c.mu.RUnlock()
SizeRUnlock(g) ==
    /\ caller[g].pc = "runlock"
    /\ mu' = [mu EXCEPT !.readers = @ \ {g}]
    /\ caller' = [caller EXCEPT ![g] = noCall]
    /\ UNCHANGED cacheVars

InitLock ==
    /\ mu = [writer |-> "", readers |-> {}]
    /\ caller = [g \in Goroutines |-> noCall]

\* Part IX: the scoring pool of rankResultsOptimized, goroutine by goroutine
\* largest number of candidate documents of one call
MaxCand == 3
\* largest e.maxWorkers
MaxScorers == 3

VARIABLES
    rank,        \* the call: pc, docIDs, the score of each document, result
    jobChan,     \* the jobs in the channel
    jobsSent,    \* the feeding goroutine: number of indices sent
    jobsClosed,  \* close(jobChan) has run
    scorer,      \* each scoring goroutine: pc and the idx it holds
    scoredDocs,  \* the slice the goroutines write
    poolWg,      \* the counter of wg
    takenBy      \* history: the goroutines that received each index

poolVars == <<rank, jobChan, jobsSent, jobsClosed, scorer, scoredDocs, poolWg, takenBy>>

Scorers == 1..MaxScorers
\* candidate lists: distinct document ids, as the candidate selection gives
CandLists ==
    {l \in UNION {[1..n -> 1..MaxCand] : n \in 1..MaxCand} :
        \A i, j \in 1..Len(l) : i # j => l[i] # l[j]}
\* what calculateBM25Score returns for each document
ScoreMaps == [1..MaxCand -> {Num(0), Num(1000)}]

\* the zero value of ScoredDoc
zeroScoredDoc == [DocID |-> 0, Score |-> Num(0)]

\* rankResultsOptimized up to wg.Wait: make(scoredDocs), numWorkers, the
\* channel, wg.Add(1) before each go statement, the feeding goroutine
RankCall(docIDs, scoreOf, maxWorkers) ==
    /\ rank.pc = "idle"
    /\ LET numWorkers == Min(maxWorkers, Len(docIDs))
       IN  /\ rank' = [pc |-> "wait", docIDs |-> docIDs, scoreOf |-> scoreOf,
                       result |-> <<>>]
           /\ scorer' = [w \in Scorers |->
                  [pc |-> IF w <= numWorkers THEN "range" ELSE "none", idx |-> 0]]
           /\ poolWg' = numWorkers
    /\ scoredDocs' = [i \in 1..Len(docIDs) |-> zeroScoredDoc]
    /\ jobChan' = <<>>
    /\ jobsSent' = 0
    /\ jobsClosed' = FALSE
    /\ takenBy' = [i \in 1..Len(docIDs) |-> {}]

\* the feeding goroutine: jobChan <- i (the buffer holds len(docIDs) jobs, so
\* the send never blocks)
SendJob ==
    /\ rank.pc \in {"wait", "returned"}
    /\ jobsSent < Len(rank.docIDs)
    /\ jobChan' = Append(jobChan, jobsSent + 1)
    /\ jobsSent' = jobsSent + 1
    /\ UNCHANGED <<rank, jobsClosed, scorer, scoredDocs, poolWg, takenBy>>

\* the feeding goroutine: close(jobChan)
CloseJobs ==
    /\ rank.pc \in {"wait", "returned"}
    /\ jobsSent = Len(rank.docIDs)
    /\ ~jobsClosed
    /\ jobsClosed' = TRUE
    /\ UNCHANGED <<rank, jobChan, jobsSent, scorer, scoredDocs, poolWg, takenBy>>

\* a scoring goroutine: for idx := range jobChan receives the next job
ReceiveJob(w) ==
    /\ scorer[w].pc = "range"
    /\ jobChan # <<>>
    /\ scorer' = [scorer EXCEPT ![w] = [pc |-> "score", idx |-> Head(jobChan)]]
    /\ takenBy' = [takenBy EXCEPT ![Head(jobChan)] = @ \cup {w}]
    /\ jobChan' = Tail(jobChan)
    /\ UNCHANGED <<rank, jobsSent, jobsClosed, scoredDocs, poolWg>>

\* a scoring goroutine: the score of docIDs[idx] is computed and stored in
\* scoredDocs[idx]
ScoreJob(w) ==
    /\ scorer[w].pc = "score"
    /\ LET idx   == scorer[w].idx
           docID == rank.docIDs[idx]
       IN  scoredDocs' = [scoredDocs EXCEPT ![idx] =
               [DocID |-> docID, Score |-> rank.scoreOf[docID]]]
    /\ scorer' = [scorer EXCEPT ![w] = [pc |-> "range", idx |-> 0]]
    /\ UNCHANGED <<rank, jobChan, jobsSent, jobsClosed, poolWg, takenBy>>

\* a scoring goroutine: the channel is closed and drained, the range loop
\* ends and the deferred wg.Done runs
ScorerDone(w) ==
    /\ scorer[w].pc = "range"
    /\ jobChan = <<>>
    /\ jobsClosed
    /\ scorer' = [scorer EXCEPT ![w] = [pc |-> "done", idx |-> 0]]
    /\ poolWg' = poolWg - 1
    /\ UNCHANGED <<rank, jobChan, jobsSent, jobsClosed, scoredDocs, takenBy>>

\* a wait that returns whatever the counter is
WaitOverAtOnce == TRUE
\* wg.Wait returns when the counter is zero
WaitOver == poolWg = 0

\* rankResultsOptimized after wg.Wait: sort.Slice by descending score, return
SortAndReturn ==
    /\ rank.pc = "wait"
    /\ WaitOver
    /\ rank' = [rank EXCEPT !.pc = "returned", !.result = sortSlice(<<>>, scoredDocs)]
    /\ UNCHANGED <<jobChan, jobsSent, jobsClosed, scorer, scoredDocs, poolWg, takenBy>>

InitPool ==
    /\ rank = [pc |-> "idle", docIDs |-> <<>>, scoreOf |-> <<>>, result |-> <<>>]
    /\ jobChan = <<>>
    /\ jobsSent = 0
    /\ jobsClosed = FALSE
    /\ scorer = [w \in Scorers |-> [pc |-> "none", idx |-> 0]]
    /\ scoredDocs = <<>>
    /\ poolWg = 0
    /\ takenBy = <<>>

\* Part VIII: the copies of stemTokens applied to token lists, with a stemmer
\* that panics on some tokens
MaxTokens == 3

VARIABLE stemmed    \* the last token list stemmed and what each copy returned

stemVars == <<stemmed>>

StemWords == {wDogs, wCat, wBird}
TokenLists == UNION {[1..n -> StemWords] : n \in 0..MaxTokens}

\* both copies of stemTokens called on the same tokens by the same stemmer
StemBoth(tokens, raising) ==
    /\ stemmed' = [tokens  |-> tokens,
                   raising |-> raising,
                   indexer |-> stemTokensRecover(tokens, raising),
                   crawler |-> crawlerStemTokens(tokens, raising)]

InitStem ==
    stemmed = [tokens |-> <<>>, raising |-> {}, indexer |-> <<>>, crawler |-> <<>>]

vars == <<frontierVars, idxVars, drvVars, queryVars, cacheVars, fetchVars, stemVars, poolVars, lockVars, ixVars, spiderVars>>
\* what the actions of one part leave unchanged
notFrontier == <<idxVars, drvVars, queryVars, cacheVars, fetchVars, stemVars, poolVars, lockVars, ixVars, spiderVars>>
notIndexer == <<frontierVars, drvVars, queryVars, cacheVars, fetchVars, stemVars, poolVars, lockVars, ixVars, spiderVars>>
notDriver == <<frontierVars, idxVars, queryVars, cacheVars, fetchVars, stemVars, poolVars, lockVars, ixVars, spiderVars>>
notQuery == <<frontierVars, idxVars, drvVars, cacheVars, fetchVars, stemVars, poolVars, lockVars, ixVars, spiderVars>>
notCache == <<frontierVars, idxVars, drvVars, queryVars, fetchVars, stemVars, poolVars, lockVars, ixVars, spiderVars>>
notFetcher == <<frontierVars, idxVars, drvVars, queryVars, cacheVars, stemVars, poolVars, lockVars, ixVars, spiderVars>>
notStem == <<frontierVars, idxVars, drvVars, queryVars, cacheVars, fetchVars, poolVars, lockVars,
            ixVars, spiderVars>>
notPool == <<frontierVars, idxVars, drvVars, queryVars, cacheVars, fetchVars, stemVars, lockVars, ixVars, spiderVars>>
\* the cache called through its lock changes cacheVars and lockVars
notLocked == <<frontierVars, idxVars, drvVars, queryVars, fetchVars, stemVars, poolVars, ixVars,
               spiderVars>>
notIx == <<frontierVars, idxVars, drvVars, queryVars, cacheVars, fetchVars, stemVars, poolVars,
           lockVars, spiderVars>>
notSpider == <<frontierVars, idxVars, drvVars, queryVars, cacheVars, fetchVars, stemVars,
               poolVars, lockVars, ixVars>>

Init ==
    /\ InitFrontier /\ InitIndexer /\ InitDriver /\ InitQuery /\ InitCache /\ InitFetcher
    /\ InitStem /\ InitPool /\ InitLock /\ InitIx /\ InitSpider

Next ==
    \/ \E s \in Seeders, r \in RawUrls, fp \in BOOLEAN :
          SeedCheck(s, r, fp) /\ UNCHANGED notFrontier
    \/ \E s \in Seeders, ok \in BOOLEAN : SeedAdd(s, ok) /\ UNCHANGED notFrontier
    \/ \E s \in Seeders, ok \in BOOLEAN : SeedPush(s, ok) /\ UNCHANGED notFrontier
    \/ \E w \in Workers, n \in 1..MaxCount : NextBatchRead(w, n) /\ UNCHANGED notFrontier
    \/ \E w \in Workers, ok \in BOOLEAN : NextBatchExec(w, ok) /\ UNCHANGED notFrontier
    \/ \E w \in Workers, i \in 1..MaxSeeds, c \in BOOLEAN, ok \in BOOLEAN :
          Task(w, i, c, ok) /\ UNCHANGED notFrontier
    \/ \E w \in Workers, k \in 0..MaxSeeds : AddBatchWebPage(w, k) /\ UNCHANGED notFrontier
    \/ \E w \in Workers : Crash(w) /\ UNCHANGED notFrontier
    \/ \E w \in Workers : Restart(w) /\ UNCHANGED notFrontier

\* the crawl: producers seeding, fetcher workers, faults of the stores
Spec == Init /\ [][Next]_vars

InitIndex == Init /\ started = Workers

NextIndex ==
    \/ \E w \in IndexWorkers, docs \in Batches :
          TakeBatch(w, docs) /\ UNCHANGED notIndexer
    \/ \E w \in IndexWorkers, ok \in BOOLEAN :
          InsertDocuments(w, ok) /\ UNCHANGED notIndexer
    \/ \E w \in IndexWorkers, ok \in BOOLEAN :
          UpsertTerms(w, ok) /\ UNCHANGED notIndexer
    \/ \E w \in IndexWorkers, ok \in BOOLEAN :
          \E chunk \in NextChunks(indexer[w].left) :
              InsertPosting(w, chunk, ok) /\ UNCHANGED notIndexer

\* the indexer: workers taking batches and writing them, failed bulk writes
SpecIndex == InitIndex /\ [][NextIndex]_vars

NextDriver ==
    \/ LoadCursor /\ UNCHANGED notDriver
    \/ Cancel /\ UNCHANGED notDriver
    \/ \E ok \in BOOLEAN : SaveOnCancel(ok) /\ UNCHANGED notDriver
    \/ \E ok \in BOOLEAN : ReadPage(ok) /\ UNCHANGED notDriver
    \/ AddDocument /\ UNCHANGED notDriver
    \/ \E w \in IndexWorkers, ok \in BOOLEAN : WorkerReceive(w, ok) /\ UNCHANGED notDriver
    \/ \E w \in IndexWorkers, ok \in BOOLEAN : WorkerFlush(w, ok) /\ UNCHANGED notDriver
    \/ \E ok \in BOOLEAN : SaveAfterStart(ok) /\ UNCHANGED notDriver
    \/ ProcessExit /\ UNCHANGED notDriver
    \/ RestartIndexer /\ UNCHANGED notDriver

\* the indexer process: main feeding the workers, shutdown, failures, restart
SpecDriver == InitIndex /\ [][NextDriver]_vars

\* the query engine beside one indexer worker: the batches written while
\* searches are answered
QueryBatches ==
    {<<[URL |-> UrlA, Text |-> TextA], [URL |-> UrlB, Text |-> TextB]>>,
     <<[URL |-> UrlA2, Text |-> TextA]>>}

\* a step of the indexer under the query engine: the last answer is kept
\* only while the tables are as they were
IndexerStep ==
    /\ response' = IF <<documents', terms', postings'>> = <<documents, terms, postings>>
                   THEN response ELSE noResponse
    /\ UNCHANGED <<frontierVars, drvVars, cacheVars, fetchVars, stemVars, poolVars, lockVars, ixVars,
                   spiderVars,
                   engineTermCache, postingCache,
                   idfCache, docCache, totalDocs, avgTokenCount, statsLastUpdate,
                   searches>>

NextQuery ==
    \/ \E docs \in QueryBatches : TakeBatch("indexer-0", docs) /\ IndexerStep
    \/ InsertDocuments("indexer-0", TRUE) /\ IndexerStep
    \/ UpsertTerms("indexer-0", TRUE) /\ IndexerStep
    \/ \E chunk \in NextChunks(indexer["indexer-0"].left) :
           InsertPosting("indexer-0", chunk, TRUE) /\ IndexerStep
    \/ \E q \in Queries, page \in 1..MaxPage, pageSize \in 1..MaxPageSize :
           Search(q, page, pageSize) /\ UNCHANGED notQuery
    \/ refreshGlobalStats /\ UNCHANGED notQuery

SpecQuery == InitIndex /\ [][NextQuery]_vars

\* ---- Parse applied to requests, as Search applies it first (engine.go:72)
MaxParsePage == 3
\* CORE cat
qCore == <<"C","O","R","E"," ","c","a","t">>
\* site:"ex.co" cat
qQuotedSite == <<"s","i","t","e",":","\"","e","x",".","c","o","\""," ","c","a","t">>
\* cat or bird
qLowerOr == <<"c","a","t"," ","o","r"," ","b","i","r","d">>
ParseInputs == Queries \cup {qCore, qQuotedSite, qLowerOr}

ParseRequest(rawQuery, page, pageSize) ==
    /\ response' = [noResponse EXCEPT !.rawQuery = rawQuery,
                                       !.plan = ParseQuery(rawQuery, page, pageSize)]
    /\ UNCHANGED <<engineTermCache, postingCache, idfCache, docCache, totalDocs,
                   avgTokenCount, statsLastUpdate, searches>>

NextParse ==
    \E q \in ParseInputs, page \in 1..MaxParsePage, pageSize \in 1..MaxParsePage :
        ParseRequest(q, page, pageSize) /\ UNCHANGED notQuery

SpecParse == Init /\ [][NextParse]_vars

\* ---- a cache of any capacity, with or without ttl, and the calls on it
InitCaches ==
    /\ InitFrontier /\ InitIndexer /\ InitDriver /\ InitQuery /\ InitFetcher /\ InitStem /\ InitPool
    /\ InitLock /\ InitIx /\ InitSpider
    /\ \E capacity \in 0..MaxCapacity, ttl \in {0, CacheTtl} : NewLRUCache(capacity, ttl)

NextCache ==
    \/ \E key \in CacheKeys : Get(key) /\ UNCHANGED notCache
    \/ \E key \in CacheKeys, value \in CacheValues : Put(key, value) /\ UNCHANGED notCache
    \/ cleanup /\ UNCHANGED notCache
    \/ Clear /\ UNCHANGED notCache
    \/ Tick /\ UNCHANGED notCache

SpecCache == InitCaches /\ [][NextCache]_vars

\* ---- RunCrawler with its workers, the waiting goroutine and the signal
NextSpider ==
    \/ \E n \in 0..MaxCfgWorkers : RunCrawler(n) /\ UNCHANGED notSpider
    \/ LaunchWorker /\ UNCHANGED notSpider
    \/ StartWaiter /\ UNCHANGED notSpider
    \/ \E w \in PoolIds, e \in BOOLEAN : LeaveLoop(w, e) /\ UNCHANGED notSpider
    \/ \E w \in PoolIds : DeferredDone(w) /\ UNCHANGED notSpider
    \/ WaiterCloses /\ UNCHANGED notSpider
    \/ CancelCrawl /\ UNCHANGED notSpider
    \/ StopAll /\ UNCHANGED notSpider

SpecSpider == Init /\ [][NextSpider]_vars

\* ---- the indexer: a producer handing documents and closing, the workers
NextIx ==
    \/ SendDocument /\ UNCHANGED notIx
    \/ CloseChan /\ UNCHANGED notIx
    \/ \E w \in IndexWorkers, ok \in BOOLEAN : WorkerDoc(w, ok) /\ UNCHANGED notIx
    \/ \E w \in IndexWorkers, ok \in BOOLEAN : WorkerTick(w, ok) /\ UNCHANGED notIx
    \/ \E w \in IndexWorkers, ok \in BOOLEAN : WorkerClosed(w, ok) /\ UNCHANGED notIx
    \/ StartReturns /\ UNCHANGED notIx

SpecIx == Init /\ [][NextIx]_vars

\* ---- the cache shared by two calling goroutines and its sweeper
NextLocked ==
    \/ \E g \in Goroutines, op \in LockedOps \cup {"cleanup"}, key \in CacheKeys \cup {""} :
           LockCall(g, op, key) /\ UNCHANGED notLocked
    \/ \E g \in Goroutines : Lookup(g) /\ UNCHANGED notLocked
    \/ \E g \in Goroutines : Body(g) /\ UNCHANGED notLocked
    \/ \E g \in Goroutines : Unlock(g) /\ UNCHANGED notLocked
    \/ \E g \in Callers : SizeRLock(g) /\ UNCHANGED notLocked
    \/ \E g \in Callers : SizeLen(g) /\ UNCHANGED notLocked
    \/ \E g \in Callers : SizeRUnlock(g) /\ UNCHANGED notLocked
    \/ Tick /\ UNCHANGED <<notLocked, lockVars>>

SpecLocked == InitCaches /\ [][NextLocked]_vars

\* ---- one fetcher worker with its fetch tasks and the signals
NextFetcher ==
    \/ SelectSignal /\ UNCHANGED notFetcher
    \/ SelectDefault /\ UNCHANGED notFetcher
    \/ \E batchItems \in FetchBatches : NextBatchReturns(batchItems) /\ UNCHANGED notFetcher
    \/ NextBatchEmpty /\ UNCHANGED notFetcher
    \/ NextBatchError /\ UNCHANGED notFetcher
    \/ SleepSignal /\ UNCHANGED notFetcher
    \/ SleepTimer /\ UNCHANGED notFetcher
    \/ RangeSkip /\ UNCHANGED notFetcher
    \/ RangeLaunch /\ UNCHANGED notFetcher
    \/ RangeEnd /\ UNCHANGED notFetcher
    \/ InsertBatch /\ UNCHANGED notFetcher
    \/ \E i \in 1..MaxItems, ok \in BOOLEAN : Crawl(i, ok) /\ UNCHANGED notFetcher
    \/ \E i \in 1..MaxItems : AppendPage(i) /\ UNCHANGED notFetcher
    \/ \E i \in 1..MaxItems : TaskEnd(i) /\ UNCHANGED notFetcher
    \/ CancelCtx /\ UNCHANGED notFetcher
    \/ Stop /\ UNCHANGED notFetcher

SpecFetcher == InitIndex /\ [][NextFetcher]_vars

\* ---- the crawl under fair scheduling, with stores that execute every
\* command and a process that is never killed: the steps of one producer and
\* of one fetcher worker
SeederStep(s) ==
    \/ \E r \in RawUrls, fp \in BOOLEAN : SeedCheck(s, r, fp) /\ UNCHANGED notFrontier
    \/ SeedAdd(s, TRUE) /\ UNCHANGED notFrontier
    \/ SeedPush(s, TRUE) /\ UNCHANGED notFrontier

WorkerStep(w) ==
    \/ \E n \in 1..MaxCount : NextBatchRead(w, n) /\ UNCHANGED notFrontier
    \/ NextBatchExec(w, TRUE) /\ UNCHANGED notFrontier
    \/ \E i \in 1..MaxSeeds, c \in BOOLEAN : Task(w, i, c, TRUE) /\ UNCHANGED notFrontier
    \/ AddBatchWebPage(w, Len(worker[w].pagesData)) /\ UNCHANGED notFrontier

NextLive ==
    \/ \E s \in Seeders : SeederStep(s)
    \/ \E w \in Workers : WorkerStep(w)

\* every producer inside Seed and every started worker keeps being scheduled
FairCrawl ==
    /\ \A s \in Seeders : WF_vars(SeederStep(s))
    /\ \A w \in Workers : WF_vars(WorkerStep(w))

SpecLive == Init /\ [][NextLive]_vars /\ FairCrawl

\* ---- the stemming step of the pipeline on any token list
NextStem ==
    \E tokens \in TokenLists, raising \in SUBSET StemWords :
        StemBoth(tokens, raising) /\ UNCHANGED notStem

SpecStem == Init /\ [][NextStem]_vars

\* ---- calls of rankResultsOptimized and the goroutines of each call
NextPool ==
    \/ \E docIDs \in CandLists, scoreOf \in ScoreMaps, maxWorkers \in Scorers :
           RankCall(docIDs, scoreOf, maxWorkers) /\ UNCHANGED notPool
    \/ SendJob /\ UNCHANGED notPool
    \/ CloseJobs /\ UNCHANGED notPool
    \/ \E w \in Scorers : ReceiveJob(w) /\ UNCHANGED notPool
    \/ \E w \in Scorers : ScoreJob(w) /\ UNCHANGED notPool
    \/ \E w \in Scorers : ScorerDone(w) /\ UNCHANGED notPool
    \/ SortAndReturn /\ UNCHANGED notPool

SpecPool == Init /\ [][NextPool]_vars

(***************************************************************************)
(* Properties                                                              *)
(***************************************************************************)
InMemory(u) == \E w \in Workers : \E i \in 1..Len(worker[w].pagesData) :
                   worker[w].pagesData[i] = u
FirstPush(u) == CHOOSE i \in 1..Len(pushLog) :
                    pushLog[i] = u /\ \A j \in 1..Len(pushLog) : pushLog[j] = u => i <= j

\* C1: an item that Seed pushed once is in at most one place among pending and
\* the processing lists of the workers: it is never leased to two workers, and
\* never both pending and leased.
ExclusiveLease ==
    \A u \in NormUrls : InList(pending, u) + InProcessing(u) <= Occurrences(pushLog, u)

\* C2: every item Seed pushed is accounted for in exactly one place (pending, a
\* processing list, the failed list, or removed by Done); stated for a single
\* worker and URLs pushed once each, where only Seed runs between NextBatch's
\* read of pending and its transaction.
AccountedOneWorker ==
    (started = {"worker-0"} /\ \A v \in NormUrls : Occurrences(pushLog, v) <= 1) =>
        \A u \in NormUrls :
            Occurrences(pushLog, u) =
                InList(pending, u) + InProcessing(u) + FailedCount(u) + doneCnt[u]

\* C3: each normalized URL is pushed to pending at most once, whatever the
\* producers and the spellings of the URL.
SeedPushesOnce == \A u \in NormUrls : Occurrences(pushLog, u) <= 1

\* C4: a URL that Done removed from its processing list has its raw page in the
\* document store, or in the list its worker is about to insert, or is still
\* queued in pending or in a processing list.
DoneOnlyWhenStored ==
    \A u \in NormUrls :
        doneCnt[u] > 0 =>
            docstore[u] > 0 \/ InMemory(u) \/ InList(pending, u) > 0 \/ InProcessing(u) > 0

\* C5: a NextBatch(worker, n) that finds processing:<worker> non-empty returns
\* the first items of that list, at least one and at most n, and changes none
\* of pending, failed and the processing lists.
RecoveryFirst ==
    [][\A w \in Workers :
          (worker[w].pc = "start" /\ processing[w] # <<>> /\ worker'[w] # worker[w]) =>
              /\ worker'[w].ret = "recovered"
              /\ Len(worker'[w].batch) \in 1..worker'[w].count
              /\ Len(worker'[w].batch) <= Len(processing[w])
              /\ \A i \in 1..Len(worker'[w].batch) :
                     Marshal(worker'[w].batch[i]) = processing[w][i]
              /\ pending' = pending
              /\ failed' = failed
              /\ processing' = processing]_vars

\* C5 witness: a worker holds a recovered batch while pending holds items
RecoveredWithPending ==
    \E w \in Workers : worker[w].ret = "recovered" /\ worker[w].batch # <<>> /\ pending # <<>>

\* the step of a fetch task that called Fail (no page was appended)
FailStep(w) ==
    /\ worker[w].pc = "fetch"
    /\ worker'[w].pc = "fetch"
    /\ worker'[w].todo # worker[w].todo
    /\ worker'[w].pagesData = worker[w].pagesData

FailIsTerminal ==
    \A u \in FailedUrls : InList(pending, u) = 0 /\ InProcessing(u) = 0

\* C8: with a single worker, the items of a batch returned by NextBatch are in
\* the order they were seeded.
BatchInSeedOrder ==
    started = {"worker-0"} =>
        LET b == worker["worker-0"].batch
        IN  \A i, j \in 1..Len(b) :
                i < j => FirstPush(b[i].Url) <= FirstPush(b[j].Url)

\* the positions stored for a document, summed over its postings
RECURSIVE PositionsTotal(_, _)
PositionsTotal(keys, id) ==
    IF keys = {} THEN 0
    ELSE LET k == CHOOSE x \in keys : TRUE
         IN  (IF k[2] = id THEN Len(postings[k]) ELSE 0) + PositionsTotal(keys \ {k}, id)

Quiescent == idxFaults = 0 /\ \A w \in IndexWorkers : indexer[w].pc = "idle"
TermOfId(id) == CHOOSE t \in DOMAIN terms : terms[t] = id
UrlOfId(id) == CHOOSE u \in IdxUrls : documents[u].id = id

\* C9: once every batch taken has been written, the token_count of each
\* document equals the number of positions stored in its postings.
TokenCountMatchesPostings ==
    Quiescent =>
        \A u \in IdxUrls :
            documents[u].id # 0 =>
                documents[u].token_count = PositionsTotal(DOMAIN postings, documents[u].id)

\* C10: once every batch taken has been written, each posting is non-empty,
\* strictly increasing, and lists the emission indices of its term in the token
\* list of its document.
PostingsMatchTokens ==
    Quiescent =>
        \A k \in DOMAIN postings :
            /\ postings[k] # <<>>
            /\ \A i \in 1..(Len(postings[k]) - 1) : postings[k][i] < postings[k][i + 1]
            /\ postings[k] = PositionsFrom(documents[UrlOfId(k[2])].tokens, TermOfId(k[1]), 0)

\* the last page of docs with the given url
LastWithUrl(docs, u) ==
    docs[CHOOSE i \in 1..Len(docs) :
             docs[i].URL = u /\ \A j \in 1..Len(docs) : docs[j].URL = u => j <= i]

\* C11: InsertDocuments keeps one row per url: the id it returns for the i-th
\* page is the id of the row of that page's url, the id the row already had
\* when the url was present, and no id of another row; the row carries the
\* token_count of the last page written for the url, and rows of other urls
\* are untouched.
UpsertInPlace ==
    [][\A w \in IndexWorkers :
          (indexer[w].pc = "documents" /\ indexer'[w].pc = "terms") =>
              LET docs == indexer[w].batch.docs
                  ids  == indexer'[w].docIDs
                  urls == {docs[i].URL : i \in 1..Len(docs)}
              IN  /\ Len(ids) = Len(docs)
                  /\ \A i \in 1..Len(docs) :
                         /\ ids[i] # 0
                         /\ ids[i] = documents'[docs[i].URL].id
                         /\ documents[docs[i].URL].id # 0 =>
                                ids[i] = documents[docs[i].URL].id
                  /\ \A u, v \in IdxUrls :
                         (u # v /\ documents'[u].id # 0) =>
                             documents'[u].id # documents'[v].id
                  /\ \A u \in urls :
                         documents'[u].token_count = LastWithUrl(docs, u).TokenCount
                  /\ \A u \in IdxUrls \ urls : documents'[u] = documents[u]]_vars

\* C11 witness: a batch of two pages got the ids of its pages in page order,
\* the second page being a url indexed by an earlier batch (its id is smaller)
ReindexedInOrder ==
    \E w \in IndexWorkers :
        /\ indexer[w].pc = "terms"
        /\ Len(indexer[w].docIDs) = 2
        /\ indexer[w].docIDs[1] > indexer[w].docIDs[2]


\* C12: once a batch has been written completely, processing the same pages
\* again, completely or up to a failed bulk write, leaves documents, terms and
\* postings as that run left them.
ReprocessIdempotent ==
    [][\A w \in IndexWorkers :
          (/\ indexer[w].pc \in {"documents", "terms", "postings"}
           /\ indexer'[w] # indexer[w]
           /\ written.docs = indexer[w].batch.docs) =>
              <<documents', terms', postings'>> = written.db]_vars


\* C13: when the indexer process has ended, every raw page with an id at or
\* below the persisted cursor has been indexed.
CursorBehindWork ==
    mainPc = "exited" => \A id \in RawIDs : id <= cursorKey => id \in indexedIDs

\* C14: when main reads the next page of raw documents after a page that was
\* processed successfully, the cursor of that page has been persisted.
CursorSavedPerPage ==
    [][(/\ mainPc = "loop"
        /\ mainPc' = "feed"
        /\ lastID # 0
        /\ \A id \in RawIDs : id <= lastID => id \in indexedIDs) =>
            cursorKey = lastID]_vars


(***************************************************************************)
(* Properties of the query engine                                          *)
(***************************************************************************)
Answered == response.rawQuery # <<>>
\* the place (from 1) of a document in a sequence of records with DocID, 0 if absent
PlaceOf(seq, docID) ==
    IF \E i \in 1..Len(seq) : seq[i].DocID = docID
    THEN CHOOSE i \in 1..Len(seq) : seq[i].DocID = docID
    ELSE 0
DocIDsOf(seq) == {seq[i].DocID : i \in 1..Len(seq)}
\* the candidate at place k of the ranked list lies on the page of the answer
OnPage(k) ==
    /\ k > (response.plan.page - 1) * response.plan.pageSize
    /\ k <= response.plan.page * response.plan.pageSize

\* C15: once a batch has been written, a search without filter whose only
\* term is a token of a page of the batch has the document of that page among
\* its candidates, and among its results when its place in the ranked list is
\* on the page asked for.
IndexQuerySymmetry ==
    \A i \in DOMAIN written.docs :
        \A t \in Range(TokensOf(written.docs[i])) :
            (Answered /\ response.plan.terms = <<t>> /\ response.plan.filters = <<>>) =>
                /\ documents[written.docs[i].URL].id \in Range(response.docIDs)
                /\ OnPage(PlaceOf(response.scoredDocs, documents[written.docs[i].URL].id))
                       => documents[written.docs[i].URL].id \in DocIDsOf(response.results)

\* a search for "dogs" in quotes served the page "dogs dogs cat" of the batch
\* just written, after an earlier search
SymmetryServed ==
    /\ response.rawQuery = qPhraseDogs
    /\ searches = 2
    /\ \E i \in DOMAIN written.docs :
           /\ <<"d","o","g">> \in Range(TokensOf(written.docs[i]))
           /\ documents[written.docs[i].URL].id \in DocIDsOf(response.results)

\* the documents with a posting for every term id of the answer, and with the
\* site value in their url when the query has a site filter
HasAllTerms(docID) == \A t \in Range(response.termIDs) : <<t, docID>> \in DOMAIN postings
PassesSite(docID) ==
    hasSite(response.plan) => Contains(UrlOfDoc(docID), siteOf(response.plan))
StoredDocIDs == {documents[u].id : u \in StoredUrls}

\* C16: the candidates of an AND query with at least one resolved term are
\* exactly the documents that have a posting for every resolved term of the
\* query, also when a term occurs twice in the query.
AndSelectsAllTerms ==
    (Answered /\ response.plan.operator = "AND" /\ response.termIDs # <<>>) =>
        Range(response.docIDs) = {d \in StoredDocIDs : HasAllTerms(d) /\ PassesSite(d)}

PhraseAnswered ==
    Answered /\ response.plan.operator = "PHRASE" /\ Len(response.termIDs) >= 2
NoDocTwice(seq) == \A i, j \in 1..Len(seq) : i # j => seq[i] # seq[j]

HeldPositions(termID, docID) ==
    IF termID \in DOMAIN postingCache
    THEN {postingCache[termID][n].Positions :
             n \in {m \in DOMAIN postingCache[termID] : postingCache[termID][m].DocID = docID}}
    ELSE IF <<termID, docID>> \in DOMAIN postings THEN {postings[<<termID, docID>>]}
    ELSE {}

HeldMatch(termIDs, docID) ==
    /\ \A i \in 1..Len(termIDs) : HeldPositions(termIDs[i], docID) # {}
    /\ \E first \in HeldPositions(termIDs[1], docID) : \E p0 \in Range(first) :
           \A i \in 2..Len(termIDs) :
               \E later \in HeldPositions(termIDs[i], docID) : p0 + (i - 1) \in Range(later)

SiteFilterRestricts ==
    (Answered /\ hasSite(response.plan)) =>
        \A d \in Range(response.docIDs) : Contains(UrlOfDoc(d), siteOf(response.plan))

\* strings.TrimRight(s, "/") and the key deduplicateResults compares
RECURSIVE TrimRight(_, _)
TrimRight(s, c) ==
    IF s # <<>> /\ s[Len(s)] = c THEN TrimRight(SubSeq(s, 1, Len(s) - 1), c) ELSE s
normalizedURL(url) == ToLower(TrimRight(url, "/"))

\* C19: the results of an answer hold no two urls that are equal after
\* lowercasing and stripping trailing "/", and the total of the answer is the
\* number of candidates that differ in that form.
SearchDeduplicates ==
    Answered =>
        /\ \A i, j \in 1..Len(response.results) :
               i # j => normalizedURL(response.results[i].URL)
                          # normalizedURL(response.results[j].URL)
        /\ response.total =
              Cardinality({normalizedURL(UrlOfDoc(d)) : d \in Range(response.docIDs)})

\* the ranked list of an answer is in descending order of score and the
\* results are its entries (page-1)*pageSize .. page*pageSize - 1
PageOfRanked(r) ==
    /\ \A i, j \in 1..Len(r.scoredDocs) :
           i < j => ~Greater(r.scoredDocs[j].Score, r.scoredDocs[i].Score)
    /\ Len(r.results) <= r.plan.pageSize
    /\ (r.plan.page - 1) * r.plan.pageSize >= r.total => r.results = <<>>
    /\ \A k \in 1..Len(r.scoredDocs) :
           (k > (r.plan.page - 1) * r.plan.pageSize /\ k <= r.plan.page * r.plan.pageSize)
             => /\ k - (r.plan.page - 1) * r.plan.pageSize \in 1..Len(r.results)
                /\ r.results[k - (r.plan.page - 1) * r.plan.pageSize].DocID
                      = r.scoredDocs[k].DocID
ScoredSet(r) == {<<r.scoredDocs[i].DocID, r.scoredDocs[i].Score>> : i \in 1..Len(r.scoredDocs)}

\* C20: every answer is the page asked for of its candidates in descending
\* order of score, with at most pageSize results and none when the page starts
\* at or beyond total; and two answers to the same query and page size over
\* the same index and the same finite scores report the same total and, for
\* different pages, share no document.
PagesPartition ==
    [][searches' = searches + 1 =>
          /\ PageOfRanked(response')
          /\ (/\ Answered
              /\ response'.rawQuery = response.rawQuery
              /\ response'.plan.pageSize = response.plan.pageSize
              /\ ScoredSet(response') = ScoredSet(response)
              /\ \A sd \in ScoredSet(response) : sd[2].k = "num") =>
                 /\ response'.total = response.total
                 /\ response'.plan.page # response.plan.page =>
                        DocIDsOf(response'.results) \cap DocIDsOf(response.results) = {}]_vars

\* a query term of the answer occurs in the document
TermOccurs(docID) == \E t \in Range(response.termIDs) : termFreq(docID, t) > 0
\* the statistics the answer was scored with are those of the stored index
StatsCurrent ==
    /\ totalDocs = Cardinality(StoredDocIDs)
    /\ totalDocs > 0
    /\ avgTokenCount = SumTokenCounts(StoredUrls) \div totalDocs
    /\ \A d \in DOMAIN docCache : docCache[d].Normalized.den = avgTokenCount
    /\ \A t \in DOMAIN idfCache :
           idfCache[t] = Log(totalDocs, Cardinality({d \in StoredDocIDs : termFreq(d, t) > 0}) + 1)

\* C21: with the statistics of the stored index in force, every candidate of an
\* answer with at least one resolved term has a finite score that is >= 0, and
\* the score is 0 exactly when no query term occurs in the document.
BM25NonNegative ==
    (Answered /\ response.termIDs # <<>> /\ StatsCurrent) =>
        \A i \in 1..Len(response.scoredDocs) :
            /\ response.scoredDocs[i].Score.k = "num"
            /\ response.scoredDocs[i].Score.v >= 0
            /\ response.scoredDocs[i].Score.v = 0 <=> ~TermOccurs(response.scoredDocs[i].DocID)

\* no term of the plan of the answer has a row in the terms table
AllUnknown(r) == \A i \in 1..Len(r.plan.terms) : r.plan.terms[i] \notin DOMAIN terms
\* the answer is empty and neither candidates nor scores were computed for it
EmptyAnswer(r) ==
    /\ r.results = <<>> /\ r.total = 0
    /\ r.termIDs = <<>> /\ r.docIDs = <<>> /\ r.scoredDocs = <<>>

\* C22: a search whose plan has no term, or only terms without a row in the
\* terms table, returns no result and total 0, computes neither candidates nor
\* scores and leaves the caches of postings, idf values and document lengths
\* as they were.
NoTermsEmptyAnswer ==
    [][(searches' = searches + 1 /\ AllUnknown(response')) =>
          /\ EmptyAnswer(response')
          /\ UNCHANGED <<postingCache, idfCache, docCache>>]_vars
\* a query without any term and a query with an unknown term have been answered
NoTermsServed == Answered /\ response.plan.terms = <<>> /\ response.total = 0
UnknownTermsServed ==
    Answered /\ response.plan.terms # <<>> /\ AllUnknown(response) /\ response.total = 0

----------------------------------------------------------------------------
\* Properties of Parse

\* the query of the request after the key:value filters have been removed
Remaining(rawQuery) == ExtractFilters(FindAllStringSubmatch(rawQuery), <<>>, rawQuery).rawQuery
\* PHRASE with a double quote, else OR with the standalone token OR, else AND
OperatorOf(remaining) ==
    IF Contains(remaining, <<"\"">>) THEN "PHRASE"
    ELSE IF \E i \in 1..Len(Fields(remaining)) : Fields(remaining)[i] = <<"O", "R">> THEN "OR"
    ELSE "AND"

\* C23: the operator of a parsed plan is PHRASE when the query without its
\* filters contains a double quote, otherwise OR exactly when it contains the
\* standalone token OR, otherwise AND.
OperatorSelection ==
    Answered => response.plan.operator = OperatorOf(Remaining(response.rawQuery))

----------------------------------------------------------------------------
\* Properties of the LRU cache

\* C24: a cache never stores more entries than its capacity, whatever calls
\* of Put, Get, Clear and runs of the sweeper it has seen, the capacity 0
\* included.
CapacityBound ==
    /\ Len(lruList) <= lruCapacity
    /\ Cardinality(lruCache) <= lruCapacity

\* a step that is a call on the cache (the clock stands still during a call)
CallStep(op) == clock' = clock /\ lruReturn'.op = op /\ cacheVars' # cacheVars
\* the entry of a key in a list, and the list without that entry
EntryOf(list, key) == list[ElemOf(list, key)]
Without(list, key) == IF ElemOf(list, key) = 0 THEN list ELSE Remove(list, ElemOf(list, key))
Expired(item) == lruTtl > 0 /\ clock > item.expiresAt

\* C25: a Get that finds its key unexpired and every Put leave the key at the
\* front with the other entries in their order; a Put of a new key into a
\* cache that is full removes the entry at the back and no other; a Put of a
\* key already stored replaces its value and removes nothing.
RecencyOrder ==
    [][/\ (CallStep("Get") /\ lruReturn'.key \in lruCache
            /\ ~Expired(EntryOf(lruList, lruReturn'.key))) =>
              /\ lruList'[1] = EntryOf(lruList, lruReturn'.key)
              /\ Tail(lruList') = Without(lruList, lruReturn'.key)
       /\ CallStep("Put") =>
              /\ lruList'[1].key = lruReturn'.key
              /\ lruList'[1].value = lruReturn'.value
       /\ (CallStep("Put") /\ lruReturn'.key \notin lruCache) =>
              Tail(lruList') = IF Len(lruList) >= lruCapacity /\ lruList # <<>>
                               THEN SubSeq(lruList, 1, Len(lruList) - 1)
                               ELSE lruList
       /\ (CallStep("Put") /\ lruReturn'.key \in lruCache) =>
              /\ Tail(lruList') = Without(lruList, lruReturn'.key)
              /\ Len(lruList') = Len(lruList)]_vars
\* a Put has evicted the least recently used of two entries
EvictedOldest ==
    /\ lruReturn.op = "Put" /\ lruReturn.evicted # ""
    /\ lruCapacity = MaxCapacity /\ Len(lruList) = MaxCapacity
    /\ lruReturn.evicted \notin lruCache

\* the last Put of the key is more than ttl ago
WrittenLongAgo(key) == key \in DOMAIN writtenAt /\ clock > writtenAt[key] + lruTtl

\* C26: in a cache with ttl, a Get returns a value only when the last Put of
\* its key is at most ttl ago, and then the value of that Put; a Get of a key
\* stored longer than ttl ago reports a miss and removes the entry; no call but
\* Put changes the expiry of an entry that stays in the cache.
TtlRespected ==
    [][lruTtl > 0 =>
         /\ (CallStep("Get") /\ lruReturn'.ok) =>
                /\ ~WrittenLongAgo(lruReturn'.key)
                /\ lruReturn'.key \in lruCache
                /\ lruReturn'.value = EntryOf(lruList, lruReturn'.key).value
         /\ (CallStep("Get") /\ lruReturn'.key \in lruCache
                /\ WrittenLongAgo(lruReturn'.key)) =>
                /\ ~lruReturn'.ok
                /\ lruReturn'.key \notin lruCache'
                /\ lruList' = Without(lruList, lruReturn'.key)
         /\ \A key \in lruCache \cap lruCache' :
                \/ CallStep("Put") /\ lruReturn'.key = key
                      /\ EntryOf(lruList', key).expiresAt = clock + lruTtl
                \/ EntryOf(lruList', key).expiresAt = EntryOf(lruList, key).expiresAt]_vars
\* a Get has just removed an entry whose Put was more than ttl ago
ExpiredMiss ==
    /\ lruTtl > 0 /\ lruReturn.op = "Get" /\ ~lruReturn.ok
    /\ lruReturn.evicted = lruReturn.key
    /\ lruReturn.at > writtenAt[lruReturn.key] + lruTtl
\* a Get has returned a value in the last tick of its life, after an earlier hit
LateHit ==
    /\ lruTtl > 0 /\ lruReturn.op = "Get" /\ lruReturn.ok
    /\ lruReturn.at = writtenAt[lruReturn.key] + lruTtl

\* C27: a run of the sweeper happens only in a cache with ttl; it removes the
\* expired entries at the back up to the first entry that has not expired and
\* nothing else, leaves the remaining entries in their order with their
\* values, and afterwards every expired entry left has an unexpired entry
\* behind it.
SweepFromBack ==
    [][CallStep("cleanup") =>
         /\ lruTtl > 0
         /\ \E n \in 0..Len(lruList) :
                /\ lruList' = SubSeq(lruList, 1, Len(lruList) - n)
                /\ \A i \in (Len(lruList) - n + 1)..Len(lruList) : Expired(lruList[i])
                /\ n < Len(lruList) => ~Expired(lruList[Len(lruList) - n])
         /\ lruCache' = {lruList'[i].key : i \in 1..Len(lruList')}
         /\ \A i \in 1..Len(lruList') :
                Expired(lruList'[i]) =>
                    \E j \in (i + 1)..Len(lruList') : ~Expired(lruList'[j])]_vars
\* a run has removed an expired entry and stopped at one that has not expired
SweptAndStopped ==
    /\ lruReturn.op = "cleanup" /\ lruReturn.value >= 1
    /\ lruList # <<>> /\ lruReturn.at = clock
    /\ ~Expired(lruList[Len(lruList)])
\* a run has left an expired entry in front of an unexpired one
ExpiredLeftInFront ==
    /\ lruReturn.op = "cleanup" /\ lruReturn.at = clock
    /\ \E i \in 1..Len(lruList) : Expired(lruList[i])

----------------------------------------------------------------------------
\* Properties of the fetcher worker

\* a fetch task of the worker starts in this step
FetchStarts == \E i \in 1..MaxItems : task[i].pc # "crawl" /\ task'[i].pc = "crawl"

\* C28: once the context is cancelled or the stop channel is closed, the
\* worker starts no further fetch, neither for the remaining items of its
\* batch nor for a new batch.
NoFetchAfterSignal == [][signalled => ~FetchStarts]_vars

\* the number of pages of item i in a list of pages
PagesOf(pages, i) == Cardinality({j \in 1..Len(pages) : pages[j] = i})

\* C29: the list handed to the bulk insert after the batch has drained holds
\* exactly one page for every item of the batch reported Done and none for an
\* item reported Fail.
InsertedMatchesDone ==
    fetcher.pc = "insert" =>
        \A i \in 1..MaxItems :
            PagesOf(pagesData, i) = IF reported[i] = "Done" THEN 1 ELSE 0

\* the fetch tasks between the send on sem and the receive from it
InFlight == {i \in 1..MaxItems : task[i].pc \in {"crawl", "append", "sleep"}}

\* C30: at most maxConcurrentCrawls fetch tasks of the worker are in flight,
\* each holding one token of the semaphore, and outside the loop over a batch
\* (at the bulk insert, at the top of the loop, in NextBatch) none is.
BoundedInFlight ==
    /\ Cardinality(InFlight) <= maxConcurrentCrawls
    /\ sem = Cardinality(InFlight)
    /\ batchWg = Cardinality(InFlight)
    /\ fetcher.pc # "range" => InFlight = {}
\* the semaphore is full and the loop waits with the next item of the batch
SemaphoreFull ==
    /\ Cardinality(InFlight) = maxConcurrentCrawls
    /\ fetcher.pc = "range"
    /\ fetcher.k = maxConcurrentCrawls + 1
    /\ fetcher.k <= Len(fetcher.batchItems)
    /\ fetcher.rounds = MaxRounds

(***************************************************************************)
(* Properties of failure handling, ordering and termination                *)
(***************************************************************************)
\* the workers other than w are where they were
OthersKeepOn(w) == \A v \in IndexWorkers \ {w} : indexer'[v] = indexer[v]

\* C31: an error returned by ProcessBatch for the batch of one indexer worker
\* is logged and nothing else: the other workers keep the batches they are
\* processing and go on with them.
BatchFailureIsLocal ==
    [][\A w \in IndexWorkers :
          (/\ indexer[w].pc \in {"documents", "terms", "postings"}
           /\ indexer'[w] # indexer[w]
           /\ idxFaults' > idxFaults) => OthersKeepOn(w)]_vars

\* the tokens of a list without those on which the stemmer panics
RECURSIVE NotRaising(_, _)
NotRaising(tokens, raising) ==
    IF tokens = <<>> THEN <<>>
    ELSE (IF Head(tokens) \in raising THEN <<>> ELSE <<Head(tokens)>>)
           \o NotRaising(Tail(tokens), raising)

\* C32: when the stemmer panics on a token, every copy of stemTokens emits
\* nothing for that token and goes on with the following tokens (it returns
\* what it returns for the list without that token), so the copies return
\* the same list.
StemmerPanicDropsToken ==
    /\ stemmed.indexer = stemTokensRecover(NotRaising(stemmed.tokens, stemmed.raising), {})
    /\ stemmed.crawler = crawlerStemTokens(NotRaising(stemmed.tokens, stemmed.raising), {})
    /\ stemmed.crawler = stemmed.indexer

\* the postings of the batch of worker w, and the keys of those already sent
BatchPostings(w) ==
    AllPostings(indexer[w].termMap, indexer[w].docIDs, indexer[w].batch.termMap)
SentKeys(w) == {<<e.termID, e.docID>> : e \in BatchPostings(w) \ indexer[w].left}

\* the bulk write of worker w failed and the error went back to the caller
Aborted(w) == indexer'[w] = idleIndexer /\ idxFaults' = idxFaults + 1

\* C33: within a batch the bulk writes run in the order documents, terms,
\* postings; a failed document upsert writes no term and no posting, a failed
\* term upsert writes no posting, a failed posting sub-batch leaves the
\* sub-batches sent before it in the table and sends none after it, and each
\* failure ends ProcessBatch with the error.
BatchWritesInOrder ==
    [][\A w \in IndexWorkers :
          /\ (indexer'[w].pc = "terms" /\ indexer[w].pc # "terms")
                 => indexer[w].pc = "documents"
          /\ (indexer'[w].pc = "postings" /\ indexer[w].pc # "postings")
                 => indexer[w].pc = "terms"
          /\ terms' # terms => \E v \in IndexWorkers : indexer[v].pc = "terms"
          /\ postings' # postings => \E v \in IndexWorkers : indexer[v].pc = "postings"
          /\ InsertDocuments(w, FALSE)
                 => Aborted(w) /\ terms' = terms /\ postings' = postings
          /\ UpsertTerms(w, FALSE) => Aborted(w) /\ postings' = postings
          /\ \A chunk \in NextChunks(indexer[w].left) :
                 InsertPosting(w, chunk, FALSE) =>
                     /\ Aborted(w)
                     /\ postings' = postings
                     /\ SentKeys(w) \subseteq DOMAIN postings']_vars
\* the only batch taken had two sub-batches of postings; the first is in the
\* table and the second failed
SecondSubBatchFailed ==
    /\ batches = 1
    /\ idxFaults = 1
    /\ \A w \in IndexWorkers : indexer[w].pc = "idle"
    /\ Cardinality(DOMAIN postings) = maxBatchSize

(***************************************************************************)
(* Properties of the scoring pool                                          *)
(***************************************************************************)
\* the places of the returned list that hold document docID
PlacesOf(docID) == {k \in 1..Len(rank.result) : rank.result[k].DocID = docID}

\* C34: each index is received by at most one scoring goroutine, no two
\* goroutines hold the same slot, and when rankResultsOptimized has returned
\* every goroutine has finished, every index was received by exactly one of
\* them, and every candidate document is in the returned list exactly once,
\* with the score computed for it.
ScoringPoolExact ==
    /\ \A idx \in DOMAIN takenBy : Cardinality(takenBy[idx]) <= 1
    /\ \A v, w \in Scorers :
          (v # w /\ scorer[v].pc = "score" /\ scorer[w].pc = "score")
              => scorer[v].idx # scorer[w].idx
    /\ rank.pc = "returned" =>
          /\ \A w \in Scorers : scorer[w].pc \in {"none", "done"}
          /\ \A idx \in DOMAIN takenBy : Cardinality(takenBy[idx]) = 1
          /\ Len(rank.result) = Len(rank.docIDs)
          /\ \A idx \in 1..Len(rank.docIDs) :
                /\ Cardinality(PlacesOf(rank.docIDs[idx])) = 1
                /\ \A k \in PlacesOf(rank.docIDs[idx]) :
                      rank.result[k].Score = rank.scoreOf[rank.docIDs[idx]]
\* a call on three candidates returned after three goroutines scored one each,
\* and the sort moved a document
ThreeScorersReturned ==
    /\ rank.pc = "returned"
    /\ Len(rank.docIDs) = MaxCand
    /\ \A w \in Scorers : \E idx \in DOMAIN takenBy : takenBy[idx] = {w}
    /\ rank.result[1].DocID # rank.docIDs[1]

(***************************************************************************)
(* Liveness of the crawl                                                   *)
(***************************************************************************)
\* Seed accepted u: it pushed u to pending
Accepted(u) == \E k \in 1..Len(pushLog) : pushLog[k] = u
\* u ended: its page is in the document store or its record is on failed
Ended(u) == docstore[u] > 0 \/ u \in FailedUrls

\* C35: under fair scheduling every URL accepted by Seed ends with its page
\* in the document store or on the failed list, and eventually pending and
\* every processing list stay empty.
CrawlCompletes ==
    /\ \A u \in NormUrls : Accepted(u) ~> Ended(u)
    /\ <>[](pending = <<>> /\ \A w \in Workers : processing[w] = <<>>)

(***************************************************************************)
(* Properties of the cache under concurrent callers                        *)
(***************************************************************************)
\* the keys of the recency list, front to back
ListKeys == {lruList[i].key : i \in 1..Len(lruList)}

\* C36: whenever no goroutine is inside a method with the write lock, the
\* key map and the recency list hold the same entries, one list element per
\* key; and what Size read is the number of keys.
MapMatchesList ==
    /\ mu.writer = "" =>
          /\ lruCache = ListKeys
          /\ \A i, j \in 1..Len(lruList) : lruList[i].key = lruList[j].key => i = j
    /\ \A g \in Callers :
          caller[g].pc = "runlock" => caller[g].size = Cardinality(lruCache)
\* both calling goroutines hold the read lock together and have read the size
\* of a cache of two entries, written by Put calls that had to take turns
SizeReadByBoth ==
    /\ \A g \in Callers : caller[g].pc = "runlock" /\ caller[g].size = 2
    /\ mu.readers = Callers
    /\ clock > 1

(***************************************************************************)
(* Properties of the batching of the indexer                               *)
(***************************************************************************)
\* the number of places where document d is: the channel, the docs of the
\* workers, the batches handed to processDocuments
InChan(d) == Cardinality({k \in 1..Len(ixChan) : ixChan[k] = d})
InDocs(d) ==
    Cardinality({p \in IndexWorkers \X (1..BatchSize) :
                    p[2] <= Len(ixDocs[p[1]]) /\ ixDocs[p[1]][p[2]] = d})
InBatches(d) ==
    Cardinality({p \in (1..Len(ixBatches)) \X (1..BatchSize) :
                    p[2] <= Len(ixBatches[p[1]].docs) /\ ixBatches[p[1]].docs[p[2]] = d})

\* C37: every document handed to AddDocument is in one place only (the
\* channel, the docs of one worker, or one batch of one worker) and never in
\* two batches; a batch holds batchSize documents when it was processed for
\* being full and 1 to batchSize - 1 when processed on the tick or on the
\* closed channel; and when Start has returned every worker has returned
\* and every document handed over is in exactly one batch.
IndexerBatching ==
    /\ \A d \in 1..ixSent : InChan(d) + InDocs(d) + InBatches(d) = 1
    /\ \A w \in IndexWorkers : Len(ixDocs[w]) < BatchSize
    /\ \A k \in 1..Len(ixBatches) :
          IF ixBatches[k].cause = "full" THEN Len(ixBatches[k].docs) = BatchSize
          ELSE Len(ixBatches[k].docs) \in 1..(BatchSize - 1)
    /\ ixStart = "returned" =>
          /\ ixClosed
          /\ \A w \in IndexWorkers : ixPc[w] = "returned"
          /\ \A d \in 1..ixSent : InBatches(d) = 1
\* Start has returned after four documents went into a full batch, a batch
\* processed on the tick and a batch processed on the closed channel, made
\* by both workers
ThreeKindsOfBatch ==
    /\ ixStart = "returned"
    /\ ixSent = MaxSent
    /\ {ixBatches[k].cause : k \in 1..Len(ixBatches)} = {"full", "tick", "closed"}
    /\ {ixBatches[k].worker : k \in 1..Len(ixBatches)} = IndexWorkers

(***************************************************************************)
(* Properties of the end of the indexer process                            *)
(***************************************************************************)
\* the process ends after main has left its read loop, with no failure
ExitsAfterLoop ==
    mainPc = "returning" /\ mainPc' = "exited" /\ drvFaults' = drvFaults

\* C38: when the indexer process exits after main has left its read loop,
\* no page handed to AddDocument is still in the document channel or in the
\* partial batch of a worker: all of them have been written.
NothingLeftAtExit ==
    [][ExitsAfterLoop =>
          /\ documentChan = <<>>
          /\ \A w \in IndexWorkers : workerDocs[w] = <<>>]_vars

(***************************************************************************)
(* Properties of the fetcher pool                                          *)
(***************************************************************************)
\* the workers started that have not returned from Start
NotReturned == {w \in PoolIds : pool[w].pc \in {"loop", "deferred", "panicked"}}

\* C39: no worker panics on its return from Start, c.wg counts the workers
\* that have not returned, and done is closed only when all have returned.
PoolTerminates ==
    /\ ~crashed
    /\ \A w \in PoolIds : pool[w].pc # "panicked"
    /\ spiderWg = Cardinality(NotReturned)
    /\ doneChan => NotReturned = {}

(***************************************************************************)
(* Properties of the global statistics                                     *)
(***************************************************************************)
\* C40: while no refresh of the statistics has completed, no IDF value and
\* no document length is in the caches; and no cached IDF value was computed
\* from N = 0, no cached length from L_avg = 0.
CachedFromReadStats ==
    /\ statsLastUpdate = 0 => idfCache = <<>> /\ docCache = <<>>
    /\ \A t \in DOMAIN idfCache : idfCache[t].k = "num"
    /\ \A d \in DOMAIN docCache : docCache[d].Normalized.den # 0

====
